---- MODULE Spec2Model ----
(***************************************************************************)
(* State-machine model of the chat-summarizer log pipeline:                *)
(*   - the daily upload batch, the upload-state table (chat_log_files),    *)
(*     the post-upload retention step and the periodic local cleanup       *)
(*     (src/src/index.ts, src/src/export.ts DatabaseOperations),           *)
(*   - the per-file promise-chain writer (src/src/file-writer.ts),         *)
(*   - the export engine's completeness check and download selection      *)
(*     (src/src/export.ts),                                                *)
(*   - the calls of the object-store client, against a clock of 30 s       *)
(*     periods (src/unnamed/part_005).                                     *)
(*   - single functions on inputs drawn from bounded sets: parseTimeRange  *)
(*     and parseMessageFiles (src/src/export.ts), safeUpdate               *)
(*     (src/src/file-writer.ts).                                           *)
(* Time is counted in whole days; a file's mtime is the day of its last    *)
(* write, 0 standing for "no such file". Partitions of different dates     *)
(* never meet in one batch (a batch takes the files of one date), so the   *)
(* batch model follows the partitions of one date, LogDate: they are       *)
(* written on day LogDate and the batch of the next day uploads them.      *)
(***************************************************************************)
EXTENDS Integers, Sequences, FiniteSets, TLC

\* ------------------------------------------------------------------ bounds
MaxDay == 3
MaxRetentionDays == 2
MaxObjects == 2
MaxOps == 3
MaxCallers == 2
MaxCalls == 3
MaxExportDates == 3
MaxWait == 5
MaxRangeDay == 5
MaxLines == 3
MaxGenerated == 2
MaxKeyClock == 17
MaxScheduleClock == 72
MaxListDates == 2
MaxRenderers == 3

Groups == {"g1", "g2"}
Days == 1..MaxDay
\* the date of the partitions the batch model follows (day 1 of the clock)
LogDate == 1

VARIABLES
  today,          \* current calendar day (UTC+8)
  retentionDays,  \* config.chatLog.retentionDays
  mtime,          \* [Groups -> 0..MaxDay]: mtime of data/<g>_<LogDate>.jsonl, 0 = no file
  chatRecords,    \* groups that still have LogDate rows in the chat_records table
  logFiles,       \* rows of the chat_log_files table
  remoteCount,    \* [Groups -> Nat]: objects stored under chat-logs/<LogDate>/ for g
  phase,          \* executeAutoUpload: "idle" | "scan" | "upload" | "summary"
  task,           \* [Groups -> task state] of the run in progress
  checkErr,       \* [Groups -> BOOLEAN]: the upload-state check of the scan turn threw
  summary,        \* [success, total] of the summary the run has logged
  bg              \* groups whose transfer is still running after the 60 s race

uploadVars == <<today, retentionDays, mtime, chatRecords, logFiles, remoteCount,
                phase, task, checkErr, summary, bg>>

VARIABLES
  wOps,           \* the operations submitted to SafeFileWriter, in submission order
  writeChains,    \* SafeFileWriter.writeChains: [Keys -> index of the newest chain, 0 = no entry]
  fileContent,    \* [Keys -> sequence of lines] of the partition files
  flushPc,        \* flush(): "idle" | "waiting" | "done"
  flushSet        \* flush(): allChains, the chains it awaits

writerVars == <<wOps, writeChains, fileContent, flushPc, flushSet>>

VARIABLES
  uPc,            \* [Callers -> "idle" | "read"]: a createOrUpdateChatLogFileRecord call
  uArg,           \* [Callers -> the call's (groupKey, date, status)]
  uExisting,      \* [Callers -> id of the call's existingRecord, 0 = null]
  uCalls          \* calls made so far

upsertVars == <<uPc, uArg, uExisting, uCalls>>

VARIABLES
  xReq,           \* timeRange.dateStrings of the export request
  xLocal,         \* dates with a local file of the requested group
  xRemote,        \* dates with an object of the requested group under chat-logs/
  xListOk,        \* whether s3Uploader.listFiles succeeds
  xMatching,      \* dates whose file holds a record of a requested message type
  xPc,            \* exportChatData: "start" | "download" | "done"
  xLocalFiles,    \* localFiles
  xS3Files,       \* s3Files
  xToDownload,    \* the files of s3FilesToDownload not yet asked for
  xDownloaded,    \* downloadedFiles
  xDownloads,     \* [dates -> number of downloadFile calls for the date's object]
  xTemp,          \* dates whose downloaded copy is in the temp directory
  xResult         \* [status, records]: the ExportResult and the dates whose records it carries

exportVars == <<xReq, xLocal, xRemote, xListOk, xMatching, xPc, xLocalFiles, xS3Files,
                xToDownload, xDownloaded, xDownloads, xTemp, xResult>>

VARIABLES
  cPc,            \* executeLocalFileCleanup: "idle" | "loop" | "done"
  cTodo,          \* the files of its readdir the loop has not reached yet
  cFailed,        \* the files whose fs.stat / fs.unlink threw in the pass
  cBefore         \* the mtimes when the pass began

cleanupVars == <<cPc, cTodo, cFailed, cBefore>>

VARIABLES
  upPc,           \* uploadFile / uploadBuffer: "idle" | "read" | "transfer" | "rejected" | "returned"
  upElapsed,      \* 30 s periods since uploadBuffer armed its timer
  timeoutId,      \* whether the timer of uploadBuffer is armed
  isCompleted,    \* the flag of that name in uploadBuffer
  upTransfer,     \* the Upload: "none" | "running" | "stored" | "failed" | "aborted"
  upResult,       \* the UploadResult: "none" | "success" | the error returned
  dlPc,           \* downloadFile: "idle" | "send" | "body" | "returned"
  dlElapsed,      \* 30 s periods since downloadFile was called
  dlResult        \* its result: "none" | "success" | "failure"

clientVars == <<upPc, upElapsed, timeoutId, isCompleted, upTransfer, upResult,
                dlPc, dlElapsed, dlResult>>

VARIABLES
  rStart,         \* parseTimeRange: the day named by the start of "start,end"
  rEnd,           \* the day named by its end
  rZone,          \* UTC offset (hours) of the time zone of the process
  rPc,            \* "start" | "done"
  rDates          \* dateStrings

rangeVars == <<rStart, rEnd, rZone, rPc, rDates>>

VARIABLES
  pFiles,         \* parseMessageFiles: [FileIds -> the lines of the file]
  pUnreadable,    \* the files whose fs.readFile throws
  pTypes,         \* allowedTypes
  pPc,            \* "start" | "done"
  pMessages       \* the messages returned

parseVars == <<pFiles, pUnreadable, pTypes, pPc, pMessages>>

VARIABLES
  suFile,         \* safeUpdate: the lines of the file on disk
  suOld,          \* the lines of the file when safeUpdate was called
  suTarget,       \* messageId
  suPc,           \* "start" | "reading" | "write" | "writing" | "done" | "crashed"
  suPending,      \* the content handed to fs.writeFile
  suObserved,     \* whether a safeRead has returned during the call
  suSeen          \* what that safeRead returned

updateVars == <<suFile, suOld, suTarget, suPc, suPending, suObserved, suSeen>>

VARIABLES
  kKind,          \* key generation: "image" | "file" | "video" | "chatlog"
  kMessageId,     \* the record's messageId
  kGuildId,       \* the record's guildId, "private" standing for undefined
  kIndex,         \* index of the element within the message
  kZone,          \* UTC offset (hours) of the time zone of the process
  kNow,           \* Date.now(), in hours
  kKeys           \* the keys generated so far for that record, in order

keyVars == <<kKind, kMessageId, kGuildId, kIndex, kZone, kNow, kKeys>>

VARIABLES
  dTarget,        \* scheduling: the hour of the configured HH:mm
  dZone,          \* UTC offset (hours) of the time zone of the process
  dNow,           \* Date.now(), in hours
  dPc,            \* "idle" | "armed" | "fired"
  dDelay          \* the delay handed to setTimeout

delayVars == <<dTarget, dZone, dNow, dPc, dDelay>>

VARIABLES
  uploadScheduler,   \* whether the timer of scheduleAutoUpload is pending
  uploadCallback,    \* its callback: "idle" | "upload" | "cleanup"
  cleanupScheduler,  \* whether the interval of scheduleDbCleanup is set
  startupTimer,      \* whether the 5 s timer of initializePlugin is pending
  cleanupRunning,    \* an executeDatabaseCleanup started by the interval or the 5 s timer
  schedulers,        \* [TimePoints -> whether the timer of the time point is pending]
  pointCallback,     \* [TimePoints -> "idle" | "tasks"]: the callback of the time point
  disposed           \* the dispose handler has run

timerVars == <<uploadScheduler, uploadCallback, cleanupScheduler, startupTimer,
               cleanupRunning, schedulers, pointCallback, disposed>>

VARIABLES
  lStore,         \* the objects under chat-logs/, each the [date, group, stamp] of its key
  lGroup,         \* the partition the batch uploads: its group ...
  lDate,          \* ... and its date
  lPc,            \* "start" | "stored" | "checked"
  lFound          \* the <<group, date>> pairs for which checkS3Files returned a file

listVars == <<lStore, lGroup, lDate, lPc, lFound>>

VARIABLES
  mdPc,           \* [Renderers -> position of the convertToImage call]
  isRendering,    \* MarkdownToImageService.isRendering
  renderQueue,    \* MarkdownToImageService.renderQueue, the callers of its tasks
  mdQueued,       \* the callers that were put in the queue, in order
  mdGranted       \* the callers that were given the slot out of the queue, in order

renderVars == <<mdPc, isRendering, renderQueue, mdQueued, mdGranted>>

\* the variables of the sections added for key generation, scheduling, the
\* timers, the listing and the render slot
moreVars == <<keyVars, delayVars, timerVars, listVars, renderVars>>

\* the variables of the single-function sections
pureVars == <<rangeVars, parseVars, updateVars, moreVars>>

vars == <<uploadVars, writerVars, upsertVars, exportVars, cleanupVars, clientVars,
          pureVars>>

\* what the actions of one component leave alone
uploadRest == <<today, retentionDays, mtime, chatRecords, remoteCount, phase,
                task, checkErr, summary, bg>>
notUpload == <<writerVars, upsertVars, exportVars, cleanupVars, clientVars, pureVars>>
notWriter == <<uploadVars, upsertVars, exportVars, cleanupVars, clientVars, pureVars>>
notUpsert == <<uploadRest, writerVars, exportVars, cleanupVars, clientVars, pureVars>>
notExport == <<uploadVars, writerVars, upsertVars, cleanupVars, clientVars, pureVars>>
notCleanup == <<today, retentionDays, chatRecords, logFiles, remoteCount, phase,
                task, checkErr, summary, bg, writerVars, upsertVars, exportVars,
                clientVars, pureVars>>
notClient == <<uploadVars, writerVars, upsertVars, exportVars, cleanupVars, pureVars>>
notRange == <<uploadVars, writerVars, upsertVars, exportVars, cleanupVars, clientVars,
              parseVars, updateVars, moreVars>>
notParse == <<uploadVars, writerVars, upsertVars, exportVars, cleanupVars, clientVars,
              rangeVars, updateVars, moreVars>>
notUpdate == <<uploadVars, writerVars, upsertVars, exportVars, cleanupVars, clientVars,
               rangeVars, parseVars, moreVars>>
notMore == <<uploadVars, writerVars, upsertVars, exportVars, cleanupVars, clientVars,
             rangeVars, parseVars, updateVars>>
notKey == <<notMore, delayVars, timerVars, listVars, renderVars>>
notDelay == <<notMore, keyVars, timerVars, listVars, renderVars>>
notTimer == <<notMore, keyVars, delayVars, listVars, renderVars>>
notList == <<notMore, keyVars, delayVars, timerVars, renderVars>>
notRender == <<notMore, keyVars, delayVars, timerVars, listVars>>

\* ------------------------------------------------- chat_log_files (database)
Statuses == {"pending", "uploading", "uploaded", "failed"}
NoError == "none"

\* ctx.database.get('chat_log_files', {date, guildId})
RowsOf(rows, g, d) == {r \in rows : r.g = g /\ r.d = d}

MinId(rs) == CHOOSE i \in {r.id : r \in rs} : \A r \in rs : i <= r.id

\* records.length > 0 ? records[0] : null  (the caller tests for null first)
getChatLogFileRecord(rows, g, d) ==
  CHOOSE r \in RowsOf(rows, g, d) : r.id = MinId(RowsOf(rows, g, d))

checkChatLogFileUploaded(rows, g, d) ==
  \E r \in RowsOf(rows, g, d) : r.status = "uploaded"

\* autoInc primary key of ctx.database.create
NextId(rows) == IF rows = {} THEN 1
                ELSE 1 + (CHOOSE i \in {r.id : r \in rows} : \A r \in rows : r.id <= i)

createChatLogFileRecord(rows, g, d, status, err) ==
  rows \cup {[id |-> NextId(rows), g |-> g, d |-> d, status |-> status, error |-> err]}

\* ctx.database.set('chat_log_files', {id}, updates); keepUndef: whether the
\* driver leaves a column alone when the update passes `error: undefined`
updateChatLogFileRecord(rows, id, status, err, keepUndef) ==
  {IF r.id = id
     THEN [r EXCEPT !.status = status,
                    !.error = IF err = NoError /\ keepUndef THEN r.error ELSE err]
     ELSE r : r \in rows}

\* The upsert of index.ts; dbOk = FALSE is a database error, which the
\* function catches and logs, leaving the table as it was.
createOrUpdateChatLogFileRecord(rows, g, d, status, err, dbOk, keepUndef) ==
  IF ~dbOk THEN rows
  ELSE IF RowsOf(rows, g, d) # {}
    THEN updateChatLogFileRecord(rows, getChatLogFileRecord(rows, g, d).id,
                                 status, err, keepUndef)
    ELSE createChatLogFileRecord(rows, g, d, status, err)

\* ------------------------------------------------------------ local files
FileExists(p) == mtime[p] > 0

\* fileStats.mtime <= retentionDate, retentionDate = now - retentionDays
Expired(m, p) == m[p] > 0 /\ m[p] <= today - retentionDays

\* handleFileRetention(filePath, ...): the file's mtime map after the call
handleFileRetention(m, p) ==
  IF retentionDays > 0 /\ Expired(m, p) THEN [m EXCEPT ![p] = 0] ELSE m

\* One turn of the loop of executeLocalFileCleanup: fs.stat, the test of the
\* mtime alone, fs.unlink; ok = FALSE: one of them threw, which the catch
\* inside the loop logs
cleanupOneFile(m, p, ok) ==
  IF ok /\ Expired(m, p) THEN [m EXCEPT ![p] = 0] ELSE m

\* executeLocalFileCleanup() as one step; bad = the files whose turn threw
executeLocalFileCleanup(m, bad) ==
  IF retentionDays <= 0 THEN m
  ELSE [p \in Groups |-> cleanupOneFile(m, p, p \notin bad)[p]]

\* executeDatabaseCleanup(): cleanupExpiredRecords, then the local cleanup;
\* gone = the partitions all of whose chat_records rows are past
\* dbRetentionHours; an error of the database (then no row is gone) skips the
\* local cleanup.
executeDatabaseCleanup(gone, dbOk, bad) ==
  IF dbOk
    THEN /\ bad \subseteq {p \in Groups : Expired(mtime, p)}
         /\ chatRecords' = chatRecords \ gone
         /\ mtime' = executeLocalFileCleanup(mtime, bad)
    ELSE /\ gone = {}
         /\ bad = {}
         /\ UNCHANGED <<chatRecords, mtime>>

\* the groups whose chat_records rows of LogDate may all have expired
PastRecords == IF today > LogDate THEN chatRecords ELSE {}

\* ---------------------------------------------------------- ingestion
\* ctx.on('message') on day LogDate: createChatRecord, then
\* saveMessageToLocalFile appends to data/<g>_<LogDate>.jsonl
OnMessage(g) ==
  /\ today = LogDate
  /\ chatRecords' = chatRecords \cup {g}
  /\ mtime' = [mtime EXCEPT ![g] = today]
  /\ UNCHANGED <<today, retentionDays, logFiles, remoteCount, phase,
                 task, checkErr, bg>>
  /\ UNCHANGED summary
  /\ UNCHANGED notUpload

\* ------------------------------------------------------ the daily batch
\* (mutant) the already-uploaded test without the chat_log_files lookup
checkIfDateGroupAlreadyUploaded_NoStateCheck(g, readOk) ==
  IF ~readOk THEN FALSE ELSE g \notin chatRecords

\* checkIfDateGroupAlreadyUploaded(date, groupKey): TRUE = skip this file.
\* readOk = FALSE: a database read threw; the catch returns false.
checkIfDateGroupAlreadyUploaded(g, readOk) ==
  IF ~readOk THEN FALSE
  ELSE IF checkChatLogFileUploaded(logFiles, g, LogDate) THEN TRUE
  ELSE g \notin chatRecords

\* executeAutoUpload, up to the readdir and the filter on yesterday's date:
\* the files of LogDate are yesterday's on day LogDate + 1 only. A run that
\* takes none of them (it returns at once, or works on another date) goes on
\* to its end. A transfer that an earlier run abandoned is over by then: the
\* client ends it 30 s after the batch gave it up.
StartRun ==
  /\ phase = "idle"
  /\ bg = {}
  /\ today > LogDate
  /\ LET target == IF today = LogDate + 1
                     THEN {g \in Groups : FileExists(g)} ELSE {} IN
       /\ task' = [g \in Groups |-> IF g \in target THEN "toscan" ELSE "none"]
       /\ phase' = IF target = {} THEN "upload" ELSE "scan"
  /\ checkErr' = [g \in Groups |-> FALSE]
  /\ UNCHANGED <<today, retentionDays, mtime, chatRecords, logFiles, remoteCount, bg>>
  /\ UNCHANGED summary
  /\ UNCHANGED notUpload

\* One turn of the `for (const fileName of targetFiles)` loop. checkErr
\* tells whether the check of this turn threw.
ScanFile(g, readOk) ==
  /\ phase = "scan"
  /\ task[g] = "toscan"
  /\ LET skip == \/ ~FileExists(g)          \* fs.stat threw: continue
                 \/ checkIfDateGroupAlreadyUploaded(g, readOk)
     IN task' = [task EXCEPT ![g] = IF skip THEN "skipped" ELSE "queued"]
  /\ checkErr' = [h \in Groups |-> h = g /\ FileExists(g) /\ ~readOk]
  /\ UNCHANGED <<today, retentionDays, mtime, chatRecords, logFiles, remoteCount,
                 phase, bg>>
  /\ UNCHANGED summary
  /\ UNCHANGED notUpload

\* The loop is over: filesToUpload.map(...) starts every upload in the same
\* tick (with filesToUpload empty the run returns)
StartUploads ==
  /\ phase = "scan"
  /\ \A h \in Groups : task[h] # "toscan"
  /\ task' = [h \in Groups |-> IF task[h] = "queued" THEN "inflight" ELSE task[h]]
  /\ phase' = "upload"
  /\ checkErr' = [h \in Groups |-> FALSE]
  /\ UNCHANGED <<today, retentionDays, mtime, chatRecords, logFiles, remoteCount, bg>>
  /\ UNCHANGED summary
  /\ UNCHANGED notUpload

\* s3Uploader.uploadFile: fs.readFile(filePath), then uploadBuffer
UploadReadFile(g) ==
  /\ phase = "upload"
  /\ task[g] = "inflight"
  /\ FileExists(g)
  /\ task' = [task EXCEPT ![g] = "sending"]
  /\ UNCHANGED <<today, retentionDays, mtime, chatRecords, logFiles, remoteCount,
                 phase, checkErr, bg>>
  /\ UNCHANGED summary
  /\ UNCHANGED notUpload

\* s3Uploader.uploadFile on a file that is gone: the read error is returned
\* as {success: false, error}, which the batch records as 'failed'
UploadFileMissing(g, dbOk) ==
  /\ phase = "upload"
  /\ task[g] = "inflight"
  /\ ~FileExists(g)
  /\ task' = [task EXCEPT ![g] = "failed"]
  /\ logFiles' = createOrUpdateChatLogFileRecord(
       logFiles, g, LogDate, "failed", "error", dbOk, FALSE)
  /\ UNCHANGED <<today, retentionDays, mtime, chatRecords, remoteCount, phase, checkErr, bg>>
  /\ UNCHANGED summary
  /\ UNCHANGED notUpload

\* The upload resolves {success: true} before the 60 s race: the object is
\* stored; then fs.stat / fs.readFile of the local file (a throw lands in the
\* task's catch, nothing recorded), the 'uploaded' upsert and the retention.
UploadSuccess(g, dbOk, keepUndef) ==
  /\ phase = "upload"
  /\ task[g] = "sending"
  /\ remoteCount[g] < MaxObjects
  /\ remoteCount' = [remoteCount EXCEPT ![g] = @ + 1]
  /\ IF FileExists(g)
       THEN /\ logFiles' = createOrUpdateChatLogFileRecord(
                 logFiles, g, LogDate, "uploaded", NoError, dbOk, keepUndef)
            /\ mtime' = handleFileRetention(mtime, g)
            /\ task' = [task EXCEPT ![g] = "ok"]
       ELSE /\ task' = [task EXCEPT ![g] = "exception"]
            /\ UNCHANGED <<logFiles, mtime>>
  /\ UNCHANGED <<today, retentionDays, chatRecords, phase, checkErr, bg>>
  /\ UNCHANGED summary
  /\ UNCHANGED notUpload

\* The upload resolves {success: false, error}: the 'failed' upsert
UploadError(g, dbOk) ==
  /\ phase = "upload"
  /\ task[g] = "sending"
  /\ logFiles' = createOrUpdateChatLogFileRecord(
       logFiles, g, LogDate, "failed", "error", dbOk, FALSE)
  /\ task' = [task EXCEPT ![g] = "failed"]
  /\ UNCHANGED <<today, retentionDays, mtime, chatRecords, remoteCount, phase, checkErr, bg>>
  /\ UNCHANGED summary
  /\ UNCHANGED notUpload

\* The 60 s timer of the Promise.race rejects first (the client's own timer
\* is 90 s): the task's catch logs and returns, the transfer goes on.
UploadTimeout(g) ==
  /\ phase = "upload"
  /\ task[g] = "sending"
  /\ task' = [task EXCEPT ![g] = "timeout"]
  /\ bg' = bg \cup {g}
  /\ UNCHANGED <<today, retentionDays, mtime, chatRecords, logFiles, remoteCount,
                 phase, checkErr>>
  /\ UNCHANGED summary
  /\ UNCHANGED notUpload

\* The abandoned transfer finishes within the client's 90 s: stored ...
BackgroundStored(p) ==
  /\ p \in bg
  /\ remoteCount[p] < MaxObjects
  /\ remoteCount' = [remoteCount EXCEPT ![p] = @ + 1]
  /\ bg' = bg \ {p}
  /\ UNCHANGED <<today, retentionDays, mtime, chatRecords, logFiles, phase,
                 task, checkErr>>
  /\ UNCHANGED summary
  /\ UNCHANGED notUpload

\* ... or aborted by the client's 90 s timer / failed
BackgroundAborted(p) ==
  /\ p \in bg
  /\ bg' = bg \ {p}
  /\ UNCHANGED <<today, retentionDays, mtime, chatRecords, logFiles, remoteCount,
                 phase, task, checkErr>>
  /\ UNCHANGED summary
  /\ UNCHANGED notUpload

Settled(t) == t \notin {"toscan", "queued", "inflight", "sending"}

\* the partitions of filesToUpload: the tasks the run started
InFilesToUpload(t) == t \in {"inflight", "sending", "ok", "failed", "timeout", "exception"}

\* (mutant) the summary counts every task as a success
successCount_CountsAll(t) == Cardinality({g \in Groups : InFilesToUpload(t[g])})

\* finalResults.filter(r => r.success).length: a task returns success only
\* from its 'uploaded' branch; the catch and the 'failed' branch return
\* success: false
successCount(t) == Cardinality({g \in Groups : t[g] = "ok"})

\* finalResults.length
totalCount(t) == Cardinality({g \in Groups : InFilesToUpload(t[g])})

NoSummary == [success |-> 0, total |-> 0]

\* Promise.allSettled(uploadPromises) resolves: the summary is logged
Summarize ==
  /\ phase = "upload"
  /\ \A g \in Groups : Settled(task[g])
  /\ \E g \in Groups : InFilesToUpload(task[g])
  /\ phase' = "summary"
  /\ summary' = [success |-> successCount(task), total |-> totalCount(task)]
  /\ UNCHANGED <<today, retentionDays, mtime, chatRecords, logFiles, remoteCount,
                 task, checkErr, bg>>
  /\ UNCHANGED notUpload

\* executeAutoUpload returns (after the summary, or at once with nothing to
\* upload); the timer callback then runs executeDatabaseCleanup and re-arms
\* the timer.
FinishRun(gone, dbOk, bad) ==
  /\ \/ phase = "summary"
     \/ phase = "upload" /\ \A g \in Groups : ~InFilesToUpload(task[g])
  /\ phase' = "idle"
  /\ task' = [g \in Groups |-> "none"]
  /\ checkErr' = [g \in Groups |-> FALSE]
  /\ summary' = NoSummary
  /\ gone \subseteq PastRecords
  /\ executeDatabaseCleanup(gone, dbOk, bad)
  /\ UNCHANGED <<today, retentionDays, logFiles, remoteCount, bg>>
  /\ UNCHANGED notUpload

\* setInterval(executeDatabaseCleanup, 1 h), and the one 5 s after start-up
HourlyCleanup(gone, dbOk, bad) ==
  /\ gone \subseteq PastRecords
  /\ executeDatabaseCleanup(gone, dbOk, bad)
  /\ UNCHANGED <<today, retentionDays, logFiles, remoteCount, phase,
                 task, checkErr, bg>>
  /\ UNCHANGED summary
  /\ UNCHANGED notUpload

\* Midnight (UTC+8)
NextDay ==
  /\ today < MaxDay
  /\ phase = "idle"
  /\ bg = {}
  /\ today' = today + 1
  /\ UNCHANGED <<retentionDays, mtime, chatRecords, logFiles, remoteCount, phase,
                 task, checkErr, bg>>
  /\ UNCHANGED summary
  /\ UNCHANGED notUpload

InitUpload ==
  /\ today = 1
  /\ retentionDays \in 1..MaxRetentionDays
  /\ mtime = [p \in Groups |-> 0]
  /\ chatRecords = {}
  /\ logFiles = {}
  /\ remoteCount = [p \in Groups |-> 0]
  /\ phase = "idle"
  /\ task = [g \in Groups |-> "none"]
  /\ checkErr = [g \in Groups |-> FALSE]
  /\ summary = NoSummary
  /\ bg = {}

NextUpload ==
  \/ \E g \in Groups : OnMessage(g)
  \/ StartRun
  \/ \E g \in Groups, readOk \in BOOLEAN : ScanFile(g, readOk)
  \/ StartUploads
  \/ \E g \in Groups : UploadReadFile(g)
  \/ \E g \in Groups, dbOk \in BOOLEAN : UploadFileMissing(g, dbOk)
  \/ \E g \in Groups, dbOk \in BOOLEAN, keepUndef \in BOOLEAN :
       UploadSuccess(g, dbOk, keepUndef)
  \/ \E g \in Groups, dbOk \in BOOLEAN : UploadError(g, dbOk)
  \/ \E g \in Groups : UploadTimeout(g)
  \/ \E p \in Groups : BackgroundStored(p)
  \/ \E p \in Groups : BackgroundAborted(p)
  \/ Summarize
  \/ \E gone \in SUBSET PastRecords, dbOk \in BOOLEAN, bad \in SUBSET Groups :
       FinishRun(gone, dbOk, bad)
  \/ \E gone \in SUBSET PastRecords, dbOk \in BOOLEAN, bad \in SUBSET Groups :
       HourlyCleanup(gone, dbOk, bad)
  \/ NextDay


\* ------------------------------------------------- media backfill
\* processFileUploadsAsync of a message of LogDate has stored its media:
\* dbOps.updateChatRecord, then updateLocalFileRecord -> safeUpdate on
\* data/<g>_<LogDate>.jsonl, which rewrites the file, or writes it anew when
\* it is not there. The message handler does not wait for it; its media
\* uploads have timers of minutes, so it ends on LogDate or early on the
\* next day.
BackfillUpdate(g) ==
  /\ g \in chatRecords
  /\ today <= LogDate + 1
  /\ mtime' = [mtime EXCEPT ![g] = today]
  /\ UNCHANGED <<today, retentionDays, chatRecords, logFiles, remoteCount, phase,
                 task, checkErr, bg>>
  /\ UNCHANGED summary
  /\ UNCHANGED notUpload

\* the batch and the cleanup, with the backfill beside them
NextIngest ==
  \/ NextUpload
  \/ \E g \in Groups : BackfillUpdate(g)

\* ====================================================== SafeFileWriter
\* An operation i is the promise newChain of its enqueueWrite call:
\*   pred   the chain it was chained on (0: Promise.resolve())
\*   st     "waiting" (existingChain not settled) | "running" (operation
\*          called) | "read" (safeUpdate has read the file) | "done"
\*   out    "pending" | "ok" | "rejected"; errOf: the operation whose error
\*          the caller received; ran: the operation callback was called
\* A line is <<messageId, i>>: the record messageId as written by call i.
Keys == {"k1", "k2"}
MsgIds == {"m1", "m2"}

WDone(i) == wOps[i].st = "done"

\* safeUpdate, lines 34-69: every line of that messageId becomes the new
\* line; with no such line the new line goes after the last line
UpdatedLines(content, m, line) ==
  IF \E n \in 1..Len(content) : content[n][1] = m
    THEN [n \in 1..Len(content) |-> IF content[n][1] = m THEN line ELSE content[n]]
    ELSE Append(content, line)

\* an operation whose turn is due: its existingChain is settled
Ready(i) ==
  /\ wOps[i].st = "waiting"
  /\ wOps[i].pred # 0 => WDone(wOps[i].pred)

\* Promise reactions run before the event loop takes its next callback: a
\* call or an I/O completion finds no operation whose turn is due
NoReactionDue == \A i \in 1..Len(wOps) : ~Ready(i)

\* enqueueWrite(filePath, operation), called by safeAppend / safeUpdate
Submit(k, kind, m) ==
  /\ NoReactionDue
  /\ Len(wOps) < MaxOps
  /\ wOps' = Append(wOps, [key |-> k, kind |-> kind, m |-> m, st |-> "waiting",
                           pred |-> writeChains[k], out |-> "pending",
                           errOf |-> 0, ran |-> FALSE, snap |-> <<>>])
  /\ writeChains' = [writeChains EXCEPT ![k] = Len(wOps) + 1]
  /\ UNCHANGED <<fileContent, flushPc, flushSet>>
  /\ UNCHANGED notWriter

\* .finally(): the entry is deleted when it still is this chain
ChainCleanup(i) ==
  [writeChains EXCEPT ![wOps[i].key] = IF @ = i THEN 0 ELSE @]

\* existingChain.then(operation): a fulfilled chain calls the operation; a
\* rejected chain skips it and the rejection runs through .catch (log,
\* rethrow) and .finally
ChainTurn(i) ==
  /\ i \in 1..Len(wOps)
  /\ Ready(i)
  /\ IF wOps[i].pred # 0 /\ wOps[wOps[i].pred].out = "rejected"
       THEN /\ wOps' = [wOps EXCEPT ![i].st = "done", ![i].out = "rejected",
                                    ![i].errOf = wOps[wOps[i].pred].errOf]
            /\ writeChains' = ChainCleanup(i)
       ELSE /\ wOps' = [wOps EXCEPT ![i].st = "running", ![i].ran = TRUE]
            /\ UNCHANGED writeChains
  /\ UNCHANGED <<fileContent, flushPc, flushSet>>
  /\ UNCHANGED notWriter

\* safeAppend's operation: mkdir, appendFile; ok = FALSE is an I/O error
AppendDone(i, ok) ==
  /\ NoReactionDue
  /\ i \in 1..Len(wOps)
  /\ wOps[i].st = "running" /\ wOps[i].kind = "append"
  /\ IF ok
       THEN /\ fileContent' = [fileContent EXCEPT
                 ![wOps[i].key] = Append(@, <<wOps[i].m, i>>)]
            /\ wOps' = [wOps EXCEPT ![i].st = "done", ![i].out = "ok"]
       ELSE /\ UNCHANGED fileContent
            /\ wOps' = [wOps EXCEPT ![i].st = "done", ![i].out = "rejected",
                                    ![i].errOf = i]
  /\ writeChains' = ChainCleanup(i)
  /\ UNCHANGED <<flushPc, flushSet>>
  /\ UNCHANGED notWriter

\* safeUpdate's operation, first half: mkdir, readFile
UpdateRead(i) ==
  /\ NoReactionDue
  /\ i \in 1..Len(wOps)
  /\ wOps[i].st = "running" /\ wOps[i].kind = "update"
  /\ wOps' = [wOps EXCEPT ![i].st = "read", ![i].snap = fileContent[wOps[i].key]]
  /\ UNCHANGED <<writeChains, fileContent, flushPc, flushSet>>
  /\ UNCHANGED notWriter

\* safeUpdate's operation, second half: writeFile of the rewritten content
UpdateWrite(i, ok) ==
  /\ NoReactionDue
  /\ i \in 1..Len(wOps)
  /\ wOps[i].st = "read"
  /\ IF ok
       THEN /\ fileContent' = [fileContent EXCEPT
                 ![wOps[i].key] = UpdatedLines(wOps[i].snap, wOps[i].m, <<wOps[i].m, i>>)]
            /\ wOps' = [wOps EXCEPT ![i].st = "done", ![i].out = "ok", ![i].snap = <<>>]
       ELSE /\ UNCHANGED fileContent
            /\ wOps' = [wOps EXCEPT ![i].st = "done", ![i].out = "rejected",
                                    ![i].errOf = i, ![i].snap = <<>>]
  /\ writeChains' = ChainCleanup(i)
  /\ UNCHANGED <<flushPc, flushSet>>
  /\ UNCHANGED notWriter

\* the dispose handler calls flush(): allChains = the chains now in the map;
\* with none of them there is no await and the map is cleared at once
FlushBegin ==
  /\ NoReactionDue
  /\ flushPc = "idle"
  /\ LET allChains == {writeChains[k] : k \in Keys} \ {0} IN
       IF allChains = {}
         THEN /\ flushPc' = "done"
              /\ writeChains' = [k \in Keys |-> 0]
              /\ UNCHANGED flushSet
         ELSE /\ flushPc' = "waiting"
              /\ flushSet' = allChains
              /\ UNCHANGED writeChains
  /\ UNCHANGED <<wOps, fileContent>>
  /\ UNCHANGED notWriter

\* Promise.allSettled(allChains) resolves; writeChains.clear(); dispose()
\* clears the map again
FlushEnd ==
  /\ NoReactionDue
  /\ flushPc = "waiting"
  /\ \A i \in flushSet : WDone(i)
  /\ flushPc' = "done"
  /\ flushSet' = {}
  /\ writeChains' = [k \in Keys |-> 0]
  /\ UNCHANGED <<wOps, fileContent>>
  /\ UNCHANGED notWriter

InitWriter ==
  /\ wOps = <<>>
  /\ writeChains = [k \in Keys |-> 0]
  /\ fileContent = [k \in Keys |-> <<>>]
  /\ flushPc = "idle"
  /\ flushSet = {}

NextWriter ==
  \/ \E k \in Keys, kind \in {"append", "update"}, m \in MsgIds : Submit(k, kind, m)
  \/ \E i \in 1..MaxOps : ChainTurn(i)
  \/ \E i \in 1..MaxOps, ok \in BOOLEAN : AppendDone(i, ok)
  \/ \E i \in 1..MaxOps : UpdateRead(i)
  \/ \E i \in 1..MaxOps, ok \in BOOLEAN : UpdateWrite(i, ok)
  \/ FlushBegin
  \/ FlushEnd


\* ============================ createOrUpdateChatLogFileRecord, step by step
\* The function awaits the read of the existing record and then the write;
\* callers are the tasks of a batch (and whatever else is given the function).
Callers == 1..MaxCallers

\* const existingRecord = await dbOps.getChatLogFileRecord(dateStr, guildId)
UpsertRead(c, g, d, st) ==
  /\ uPc[c] = "idle"
  /\ uCalls < MaxCalls
  /\ uCalls' = uCalls + 1
  /\ uPc' = [uPc EXCEPT ![c] = "read"]
  /\ uArg' = [uArg EXCEPT ![c] = [g |-> g, d |-> d, status |-> st]]
  /\ uExisting' = [uExisting EXCEPT ![c] =
       IF RowsOf(logFiles, g, d) # {} THEN getChatLogFileRecord(logFiles, g, d).id ELSE 0]
  /\ UNCHANGED logFiles
  /\ UNCHANGED notUpsert

\* if (existingRecord) updateChatLogFileRecord(existingRecord.id, ...)
\* else createChatLogFileRecord(...); a database error is caught and logged
UpsertWrite(c, dbOk) ==
  /\ uPc[c] = "read"
  /\ uPc' = [uPc EXCEPT ![c] = "idle"]
  /\ uExisting' = [uExisting EXCEPT ![c] = 0]
  /\ logFiles' =
       IF ~dbOk THEN logFiles
       ELSE IF uExisting[c] # 0
         THEN updateChatLogFileRecord(logFiles, uExisting[c], uArg[c].status,
                IF uArg[c].status = "failed" THEN "error" ELSE NoError, FALSE)
         ELSE createChatLogFileRecord(logFiles, uArg[c].g, uArg[c].d, uArg[c].status,
                IF uArg[c].status = "failed" THEN "error" ELSE NoError)
  /\ UNCHANGED <<uArg, uCalls>>
  /\ UNCHANGED notUpsert

InitUpsert ==
  /\ uPc = [c \in Callers |-> "idle"]
  /\ uArg = [c \in Callers |-> [g |-> "g1", d |-> LogDate, status |-> "failed"]]
  /\ uExisting = [c \in Callers |-> 0]
  /\ uCalls = 0

NextUpsert ==
  \/ \E c \in Callers, g \in Groups, d \in Days, st \in {"uploaded", "failed"} :
       UpsertRead(c, g, d, st)
  \/ \E c \in Callers, dbOk \in BOOLEAN : UpsertWrite(c, dbOk)

\* ================================================= ExportManager.exportChatData
ExportDates == 1..MaxExportDates

\* checkLocalFiles: the requested dates whose local file is there
checkLocalFiles == xReq \cap xLocal

\* checkS3Files: for each requested date the listed object that matches
checkS3Files == IF xListOk THEN xReq \cap xRemote ELSE {}

\* (mutant) every S3 file found is downloaded
s3FilesToDownload_NoFilter(localFiles, s3Files) == s3Files

\* lines 368-392: the S3 files whose date is not among the dates of the
\* local files
s3FilesToDownload(localFiles, s3Files) == s3Files \ localFiles

\* lines 324-392: parse the range, check local and S3, the completeness test
\* on availableDays = localFiles.length + s3Files.length, then the choice of
\* the S3 files to download (those of dates with no local file)
ExportCheck ==
  /\ xPc = "start"
  /\ xLocalFiles' = checkLocalFiles
  /\ xS3Files' = checkS3Files
  /\ LET totalDays == Cardinality(xReq)
         availableDays == Cardinality(checkLocalFiles) + Cardinality(checkS3Files)
     IN IF availableDays = 0
          THEN /\ xPc' = "done"
               /\ xResult' = [status |-> "notfound", records |-> {}]
               /\ UNCHANGED xToDownload
          ELSE IF availableDays < totalDays
            THEN /\ xPc' = "done"
                 /\ xResult' = [status |-> "incomplete", records |-> {}]
                 /\ UNCHANGED xToDownload
            ELSE /\ xPc' = "download"
                 /\ xToDownload' = s3FilesToDownload(checkLocalFiles, checkS3Files)
                 /\ UNCHANGED xResult
  /\ UNCHANGED <<xReq, xLocal, xRemote, xListOk, xMatching, xDownloaded, xDownloads,
                 xTemp>>
  /\ UNCHANGED notExport

\* downloadFromS3: one turn of its loop, which writes the object to
\* <tempDir>/<file name>; a failed download is left out
ExportDownload(d, ok) ==
  /\ xPc = "download"
  /\ d \in xToDownload
  /\ \A e \in xToDownload : d <= e
  /\ xToDownload' = xToDownload \ {d}
  /\ xDownloaded' = IF ok THEN xDownloaded \cup {d} ELSE xDownloaded
  /\ xDownloads' = [xDownloads EXCEPT ![d] = @ + 1]
  /\ xTemp' = IF ok THEN xTemp \cup {d} ELSE xTemp
  /\ UNCHANGED <<xReq, xLocal, xRemote, xListOk, xMatching, xPc, xLocalFiles, xS3Files,
                 xResult>>
  /\ UNCHANGED notExport

\* (mutant) the error of an empty result is the error of "no data found"
NoRecordsError_AsNotFound == [status |-> "notfound", records |-> {}]

\* lines 400-408: the error returned when messages.length === 0
NoRecordsError == [status |-> "empty", records |-> {}]

\* cleanupTempFiles: fs.unlink of each file handed to it
cleanupTempFiles(onDisk, tempFiles) == onDisk \ tempFiles

\* lines 396-462: parse localFiles and downloadedFiles with the type filter
\* (no message: the error is returned at once), format, upload the export,
\* then cleanupTempFiles(downloadedFiles); the records of the result are
\* named by the dates they are of
ExportFinish(uploadOk) ==
  /\ xPc = "download"
  /\ xToDownload = {}
  /\ xPc' = "done"
  /\ LET messages == (xLocalFiles \cup xDownloaded) \cap xMatching IN
       /\ xResult' = IF messages = {} THEN NoRecordsError
                     ELSE IF uploadOk THEN [status |-> "ok", records |-> messages]
                     ELSE [status |-> "uploadfailed", records |-> {}]
       /\ xTemp' = IF messages = {} THEN xTemp
                   ELSE cleanupTempFiles(xTemp, xDownloaded)
  /\ UNCHANGED <<xReq, xLocal, xRemote, xListOk, xMatching, xLocalFiles, xS3Files,
                 xToDownload, xDownloaded, xDownloads>>
  /\ UNCHANGED notExport

\* the state of an export that is not running
ExportIdle ==
  /\ xPc = "start"
  /\ xLocalFiles = {}
  /\ xS3Files = {}
  /\ xToDownload = {}
  /\ xDownloaded = {}
  /\ xDownloads = [d \in ExportDates |-> 0]
  /\ xTemp = {}
  /\ xResult = [status |-> "none", records |-> {}]

\* a request over the dates lo..hi, with any local and remote availability
InitExport ==
  /\ \E lo \in ExportDates, hi \in ExportDates : lo <= hi /\ xReq = lo..hi
  /\ xLocal \in SUBSET ExportDates
  /\ xRemote \in SUBSET ExportDates
  /\ xListOk \in BOOLEAN
  /\ xMatching \in SUBSET ExportDates
  /\ ExportIdle

NoExport ==
  /\ xReq = {}
  /\ xLocal = {}
  /\ xRemote = {}
  /\ xListOk = TRUE
  /\ xMatching = {}
  /\ ExportIdle

NextExport ==
  \/ ExportCheck
  \/ \E d \in ExportDates, ok \in BOOLEAN : ExportDownload(d, ok)
  \/ \E uploadOk \in BOOLEAN : ExportFinish(uploadOk)

\* ===================================== executeLocalFileCleanup, turn by turn
\* (mutant) an error in one turn ends the pass
AfterFileError_Abort(todo, p) == {}

\* the catch is inside the for loop: the pass goes on with the other files
AfterFileError(todo, p) == todo \ {p}

\* const files = await fs.readdir(dataDir); retentionDate
CleanupBegin ==
  /\ cPc = "idle"
  /\ retentionDays > 0
  /\ cPc' = "loop"
  /\ cTodo' = {p \in Groups : FileExists(p)}
  /\ cFailed' = {}
  /\ cBefore' = mtime
  /\ UNCHANGED mtime
  /\ UNCHANGED notCleanup

\* one turn of `for (const fileName of files)`
CleanupFile(p, ok) ==
  /\ cPc = "loop"
  /\ p \in cTodo
  /\ mtime' = cleanupOneFile(mtime, p, ok)
  /\ IF ok THEN /\ cTodo' = cTodo \ {p}
                /\ UNCHANGED cFailed
          ELSE /\ cTodo' = AfterFileError(cTodo, p)
               /\ cFailed' = cFailed \cup {p}
  /\ UNCHANGED <<cPc, cBefore>>
  /\ UNCHANGED notCleanup

\* the loop is over: the counts are logged
CleanupEnd ==
  /\ cPc = "loop"
  /\ cTodo = {}
  /\ cPc' = "done"
  /\ UNCHANGED <<mtime, cTodo, cFailed, cBefore>>
  /\ UNCHANGED notCleanup

\* no pass in progress
InitCleanup ==
  /\ cPc = "idle"
  /\ cTodo = {}
  /\ cFailed = {}
  /\ cBefore = [p \in Groups |-> 0]

NextCleanup ==
  \/ CleanupBegin
  \/ \E p \in Groups, ok \in BOOLEAN : CleanupFile(p, ok)
  \/ CleanupEnd

\* =============================================== S3Uploader (object-store client)
\* Time is counted in periods of 30 s here: setTimeout(..., 90000)
UploadDeadline == 3

\* (mutant) the timer never comes due
TimerDue_Never(elapsed) == FALSE

\* the timer armed by uploadBuffer is due
TimerDue(elapsed) == elapsed >= UploadDeadline

\* the message of the error a failed step throws: a text, or none at all
ErrorMessages(text) == {text, ""}

\* (mutant) the message of the error is returned as it is
ErrorText_Raw(message, fallback) == message

\* error?.message || fallback
ErrorText(message, fallback) == IF message = "" THEN fallback ELSE message

\* uploadBuffer(buffer, key): new Upload, upload.done(), the timer is armed
uploadBufferCall ==
  /\ upPc = "idle"
  /\ upPc' = "transfer"
  /\ upTransfer' = "running"
  /\ timeoutId' = TRUE
  /\ upElapsed' = 0
  /\ UNCHANGED <<isCompleted, upResult, dlPc, dlElapsed, dlResult>>
  /\ UNCHANGED notClient

\* uploadFile(filePath, key): await fs.readFile(filePath)
uploadFileCall ==
  /\ upPc = "idle"
  /\ upPc' = "read"
  /\ UNCHANGED <<upElapsed, timeoutId, isCompleted, upTransfer, upResult,
                 dlPc, dlElapsed, dlResult>>
  /\ UNCHANGED notClient

\* uploadFile: the read is over; its error is returned by the catch of
\* uploadFile as { success: false, error: error?.message || '读取文件失败' },
\* otherwise uploadBuffer is called with the buffer
FileRead(ok) ==
  /\ upPc = "read"
  /\ IF ok
       THEN /\ upPc' = "transfer"
            /\ upTransfer' = "running"
            /\ timeoutId' = TRUE
            /\ upElapsed' = 0
            /\ UNCHANGED upResult
       ELSE /\ upPc' = "returned"
            /\ \E message \in ErrorMessages("readerror") :
                 upResult' = ErrorText(message, "readfailed")
            /\ UNCHANGED <<upTransfer, timeoutId, upElapsed>>
  /\ UNCHANGED <<isCompleted, dlPc, dlElapsed, dlResult>>
  /\ UNCHANGED notClient

\* upload.done() resolves: isCompleted, clearTimeout, the result
\* { success: true, url, key: fullKey, fileSize }, here "success"
TransferDone ==
  /\ upPc = "transfer"
  /\ upTransfer = "running"
  /\ upTransfer' = "stored"
  /\ isCompleted' = TRUE
  /\ timeoutId' = FALSE
  /\ upPc' = "returned"
  /\ upResult' = "success"
  /\ UNCHANGED <<upElapsed, dlPc, dlElapsed, dlResult>>
  /\ UNCHANGED notClient

\* upload.done() rejects: the race rejects with the SDK's error, whose
\* message upResult holds until the outer catch has made the result of it
TransferFails(message) ==
  /\ upPc = "transfer"
  /\ upTransfer = "running"
  /\ upTransfer' = "failed"
  /\ upPc' = "rejected"
  /\ upResult' = message
  /\ UNCHANGED <<upElapsed, timeoutId, isCompleted, dlPc, dlElapsed, dlResult>>
  /\ UNCHANGED notClient

\* the callback of the timer: if (!isCompleted) { isCompleted = true;
\* upload.abort(); reject(new Error(... 90 s)) }
DeadlineTimer ==
  /\ upPc # "rejected"
  /\ timeoutId
  /\ TimerDue(upElapsed)
  /\ timeoutId' = FALSE
  /\ IF isCompleted
       THEN UNCHANGED <<isCompleted, upTransfer, upPc, upResult>>
       ELSE /\ isCompleted' = TRUE
            /\ upTransfer' = IF upTransfer = "running" THEN "aborted" ELSE upTransfer
            /\ upPc' = "rejected"
            /\ upResult' = "timeout"
  /\ UNCHANGED <<upElapsed, dlPc, dlElapsed, dlResult>>
  /\ UNCHANGED notClient

\* the catch around the race: isCompleted, clearTimeout, await upload.abort()
\* (what it throws is caught and dropped: abortOk = FALSE), rethrow; the
\* outer catch returns { success: false, error: error?.message || '上传失败' }
UploadCatch(abortOk) ==
  /\ upPc = "rejected"
  /\ isCompleted' = TRUE
  /\ timeoutId' = FALSE
  /\ upTransfer' = IF upTransfer = "running" /\ abortOk THEN "aborted" ELSE upTransfer
  /\ upPc' = "returned"
  /\ upResult' = ErrorText(upResult, "uploadfailed")
  /\ UNCHANGED <<upElapsed, dlPc, dlElapsed, dlResult>>
  /\ UNCHANGED notClient

\* downloadFile(s3Key, localPath): this.client.send(new GetObjectCommand)
downloadFileCall ==
  /\ dlPc = "idle"
  /\ dlPc' = "send"
  /\ dlElapsed' = 0
  /\ UNCHANGED <<upPc, upElapsed, timeoutId, isCompleted, upTransfer, upResult, dlResult>>
  /\ UNCHANGED notClient

\* send throws (the request failed, or the client's requestTimeout /
\* connectionTimeout ran out on each of its maxAttempts): the catch of
\* downloadFile returns the failure
DownloadSendError ==
  /\ dlPc = "send"
  /\ dlPc' = "returned"
  /\ dlResult' = "failure"
  /\ UNCHANGED <<upPc, upElapsed, timeoutId, isCompleted, upTransfer, upResult, dlElapsed>>
  /\ UNCHANGED notClient

\* the response is there. body = "none": no Body, failure; body = "buffer":
\* fs.writeFile of it; body = "stream": the reader loop or reader.pipe(stream)
\* begins, and the call waits for the stream
DownloadResponse(body, writeOk) ==
  /\ dlPc = "send"
  /\ IF body = "stream"
       THEN /\ dlPc' = "body"
            /\ UNCHANGED dlResult
       ELSE /\ dlPc' = "returned"
            /\ dlResult' = IF body = "buffer" /\ writeOk THEN "success" ELSE "failure"
  /\ UNCHANGED <<upPc, upElapsed, timeoutId, isCompleted, upTransfer, upResult, dlElapsed>>
  /\ UNCHANGED notClient

\* the stream is over: the reader reports done and the file is written, or
\* the write stream emits 'finish' (ok); a read or a write throws, or the
\* write stream emits 'error' (~ok)
DownloadBodyEnd(ok) ==
  /\ dlPc = "body"
  /\ dlPc' = "returned"
  /\ dlResult' = IF ok THEN "success" ELSE "failure"
  /\ UNCHANGED <<upPc, upElapsed, timeoutId, isCompleted, upTransfer, upResult, dlElapsed>>
  /\ UNCHANGED notClient

\* 30 s go by. A timer that is due runs before more time goes by, and so
\* does the continuation of a promise that is settled.
Tick ==
  /\ upPc # "rejected"
  /\ ~(timeoutId /\ TimerDue(upElapsed))
  /\ \/ upPc = "transfer" /\ upElapsed < MaxWait
     \/ dlPc \in {"send", "body"} /\ dlElapsed < MaxWait
  /\ upElapsed' = IF upPc = "transfer" /\ upElapsed < MaxWait
                    THEN upElapsed + 1 ELSE upElapsed
  /\ dlElapsed' = IF dlPc \in {"send", "body"} /\ dlElapsed < MaxWait
                    THEN dlElapsed + 1 ELSE dlElapsed
  /\ UNCHANGED <<upPc, timeoutId, isCompleted, upTransfer, upResult, dlPc, dlResult>>
  /\ UNCHANGED notClient

\* no call of the client is under way
InitClient ==
  /\ upPc = "idle"
  /\ upElapsed = 0
  /\ timeoutId = FALSE
  /\ isCompleted = FALSE
  /\ upTransfer = "none"
  /\ upResult = "none"
  /\ dlPc = "idle"
  /\ dlElapsed = 0
  /\ dlResult = "none"

NextClient ==
  \/ uploadBufferCall
  \/ uploadFileCall
  \/ \E ok \in BOOLEAN : FileRead(ok)
  \/ TransferDone
  \/ \E message \in ErrorMessages("sdkerror") : TransferFails(message)
  \/ DeadlineTimer
  \/ \E abortOk \in BOOLEAN : UploadCatch(abortOk)
  \/ downloadFileCall
  \/ DownloadSendError
  \/ \E body \in {"none", "buffer", "stream"}, writeOk \in BOOLEAN :
       DownloadResponse(body, writeOk)
  \/ \E ok \in BOOLEAN : DownloadBodyEnd(ok)
  \/ Tick

\* ============================================ ExportManager.parseTimeRange
\* Instants are counted in hours, calendar days are numbered, and a time zone
\* is its offset from UTC in hours.
HoursPerDay == 24
\* timeZone: 'Asia/Shanghai'
UTC8 == 8
\* zones the process may run in: west of UTC, UTC, UTC+8, east of UTC+8
ZoneOffsets == {-5, 0, UTC8, 9}
RangeDays == 1..MaxRangeDay

\* getDateStringInUTC8(timestamp): the calendar day of the instant in UTC+8
getDateStringInUTC8(t) == (t + UTC8) \div HoursPerDay

\* parseDate: new Date(dateStr + 'T00:00:00'), a date-time with no offset,
\* which is midnight of that day in the zone of the process
parseDate(day, zone) == day * HoursPerDay - zone

\* the while loop of parseTimeRange: push the date string of currentDate,
\* currentDate.setDate(currentDate.getDate() + 1)
RECURSIVE DateLoop(_, _)
DateLoop(currentDate, endDate) ==
  IF currentDate <= endDate
    THEN <<getDateStringInUTC8(currentDate)>> \o DateLoop(currentDate + HoursPerDay, endDate)
    ELSE <<>>

\* parseTimeRange("start,end"): endDate.setHours(23, 59, 59, 999), the last
\* hour of the end day in the zone of the process
parseTimeRange(start, end, zone) ==
  DateLoop(parseDate(start, zone), parseDate(end, zone) + HoursPerDay - 1)

ResolveRange ==
  /\ rPc = "start"
  /\ rPc' = "done"
  /\ rDates' = parseTimeRange(rStart, rEnd, rZone)
  /\ UNCHANGED <<rStart, rEnd, rZone>>
  /\ UNCHANGED notRange

RangeIdle ==
  /\ rPc = "start"
  /\ rDates = <<>>

\* a range "start,end" asked of a process in any of the zones
InitRange ==
  /\ rStart \in RangeDays
  /\ rEnd \in RangeDays
  /\ rZone \in ZoneOffsets
  /\ RangeIdle

NoRange ==
  /\ rStart = 1
  /\ rEnd = 1
  /\ rZone = UTC8
  /\ RangeIdle

NextRange == ResolveRange

\* ========================================= ExportManager.parseMessageFiles
\* A line of a file is of kind "bad" (JSON.parse throws, safeJsonParse gives
\* null), "nofield" (JSON with no timestamp, username or content) or
\* "record" (with its timestamp and messageType). Timestamps are counted in
\* half seconds.
FileIds == {1, 2}
TicksPerSecond == 2
Stamps == {1, 2, 3}
MessageTypes == {"text", "image"}
RecordLines == [kind : {"record"}, timestamp : Stamps, messageType : MessageTypes]
BadLine == [kind |-> "bad", timestamp |-> 0, messageType |-> "none"]
NoFieldLine == [kind |-> "nofield", timestamp |-> 0, messageType |-> "none"]
Lines == {BadLine, NoFieldLine} \cup RecordLines

\* record && record.timestamp && record.username && record.content
IsRecord(line) == line.kind = "record"

\* formatDateInUTC8(timestamp), read back by new Date(msg.time).getTime():
\* year to second, the fraction of the second is not in the string
formatDateInUTC8(timestamp) == timestamp \div TicksPerSecond

\* (mutant) the loop over the lines ends at the first line that does not parse
RECURSIVE ParseLines_StopAtBad(_, _, _, _)
ParseLines_StopAtBad(f, lines, n, allowedTypes) ==
  IF n > Len(lines) \/ lines[n] = BadLine THEN <<>>
  ELSE (IF IsRecord(lines[n]) /\ lines[n].messageType \in allowedTypes
          THEN <<[time |-> formatDateInUTC8(lines[n].timestamp),
                  messageType |-> lines[n].messageType, src |-> <<f, n>>]>>
          ELSE <<>>)
       \o ParseLines_StopAtBad(f, lines, n + 1, allowedTypes)

\* for (const line of lines): the messages of the lines n.. of file f; src
\* stands for the username and the content of the line
RECURSIVE ParseLines(_, _, _, _)
ParseLines(f, lines, n, allowedTypes) ==
  IF n > Len(lines) THEN <<>>
  ELSE (IF IsRecord(lines[n]) /\ lines[n].messageType \in allowedTypes
          THEN <<[time |-> formatDateInUTC8(lines[n].timestamp),
                  messageType |-> lines[n].messageType, src |-> <<f, n>>]>>
          ELSE <<>>)
       \o ParseLines(f, lines, n + 1, allowedTypes)

\* for (const filePath of filePaths): a file that cannot be read is skipped
RECURSIVE ParseFiles(_, _, _, _)
ParseFiles(files, f, unreadable, allowedTypes) ==
  IF f \notin DOMAIN files THEN <<>>
  ELSE (IF f \in unreadable THEN <<>> ELSE ParseLines(f, files[f], 1, allowedTypes))
       \o ParseFiles(files, f + 1, unreadable, allowedTypes)

\* Array.prototype.sort with (a, b) => time(a) - time(b): a stable sort on
\* msg.time; InsertByTime puts m behind every message whose time is not later
RECURSIVE InsertByTime(_, _)
InsertByTime(sorted, m) ==
  IF sorted = <<>> THEN <<m>>
  ELSE IF sorted[Len(sorted)].time <= m.time THEN Append(sorted, m)
  ELSE Append(InsertByTime(SubSeq(sorted, 1, Len(sorted) - 1), m), sorted[Len(sorted)])

RECURSIVE SortByTime(_)
SortByTime(msgs) ==
  IF msgs = <<>> THEN <<>>
  ELSE InsertByTime(SortByTime(SubSeq(msgs, 1, Len(msgs) - 1)), msgs[Len(msgs)])

parseMessageFiles(files, unreadable, allowedTypes) ==
  SortByTime(ParseFiles(files, 1, unreadable, allowedTypes))

ParseMessageFiles ==
  /\ pPc = "start"
  /\ pPc' = "done"
  /\ pMessages' = parseMessageFiles(pFiles, pUnreadable, pTypes)
  /\ UNCHANGED <<pFiles, pUnreadable, pTypes>>
  /\ UNCHANGED notParse

ParseIdle ==
  /\ pPc = "start"
  /\ pMessages = <<>>

\* two files with at most MaxLines lines between them, any of them
\* unreadable, and a filter that lets through every type or text alone
InitParse ==
  /\ \E n \in 0..MaxLines : \E all \in [1..n -> Lines] : \E cut \in 0..n :
       pFiles = <<SubSeq(all, 1, cut), SubSeq(all, cut + 1, n)>>
  /\ pUnreadable \in SUBSET FileIds
  /\ pTypes \in {MessageTypes, {"text"}}
  /\ ParseIdle

NoParse ==
  /\ pFiles = <<<<>>, <<>>>>
  /\ pUnreadable = {}
  /\ pTypes = MessageTypes
  /\ ParseIdle

NextParse == ParseMessageFiles

\* ============================================== SafeFileWriter.safeUpdate
\* The file is a sequence of lines, each ended by '\n'. A line is of kind
\* "record" (JSON with the messageId id; v tells the record written by this
\* call from the ones that were there), "bad" (JSON.parse throws), "empty"
\* ('') or "space" (white space only).
StoredLines == [kind : {"record"}, id : MsgIds, v : {"old"}]
                 \cup {[kind |-> k, id |-> "none", v |-> "old"] : k \in {"bad", "empty", "space"}}
EmptyLine == [kind |-> "empty", id |-> "none", v |-> "old"]

\* cleanContent: the record of updatedLine without its '\n'
NewLine(m) == [kind |-> "record", id |-> m, v |-> "new"]

\* content.split('\n') of a content whose lines all end with '\n'
SplitLines(file) == Append(file, EmptyLine)

\* !line.trim()
IsBlank(line) == line.kind \in {"empty", "space"}

\* JSON.parse(line).messageId === messageId; a throw keeps the line
MatchesId(line, m) == line.kind = "record" /\ line.id = m

\* lines.map(...): every line of that messageId becomes cleanContent
MapLines(lines, m) ==
  [n \in 1..Len(lines) |-> IF ~IsBlank(lines[n]) /\ MatchesId(lines[n], m)
                             THEN NewLine(m) ELSE lines[n]]

\* the index (from 1) of the last line that is not blank, 0 with none
LastNonEmptyIndex(lines) ==
  IF \E n \in 1..Len(lines) : ~IsBlank(lines[n])
    THEN CHOOSE n \in 1..Len(lines) :
           ~IsBlank(lines[n]) /\ \A k \in (n + 1)..Len(lines) : IsBlank(lines[k])
    ELSE 0

\* updated.splice(lastNonEmptyIndex + 1, 0, cleanContent) / updated.push
InsertAfterLast(lines, m) ==
  LET last == LastNonEmptyIndex(lines) IN
    IF last > 0
      THEN SubSeq(lines, 1, last) \o <<NewLine(m)>> \o SubSeq(lines, last + 1, Len(lines))
      ELSE Append(lines, NewLine(m))

\* updated.filter(line => line !== '').join('\n') + '\n'
DropEmpty(lines) == SelectSeq(lines, LAMBDA l : l.kind # "empty")

\* lines 33-69: the content safeUpdate writes for the content it has read
finalContent(file, m) ==
  LET lines == SplitLines(file)
      found == \E n \in 1..Len(lines) : ~IsBlank(lines[n]) /\ MatchesId(lines[n], m)
      updated == IF found THEN MapLines(lines, m) ELSE InsertAfterLast(lines, m)
  IN DropEmpty(updated)

\* safeUpdate's operation is called: mkdir, fs.readFile begins
SafeUpdateCall ==
  /\ suPc = "start"
  /\ suPc' = "reading"
  /\ UNCHANGED <<suFile, suOld, suTarget, suPending, suObserved, suSeen>>
  /\ UNCHANGED notUpdate

\* fs.readFile is over. It threw (~readOk: whatever the error, the catch
\* takes it for a missing file): newContent alone is to be written.
\* Otherwise the rewritten content is.
SafeUpdateRead(readOk) ==
  /\ suPc = "reading"
  /\ suPc' = "write"
  /\ suPending' = IF readOk THEN finalContent(suFile, suTarget) ELSE <<NewLine(suTarget)>>
  /\ UNCHANGED <<suFile, suOld, suTarget, suObserved, suSeen>>
  /\ UNCHANGED notUpdate

\* fs.writeFile(filePath, ...) opens the file with flag 'w': it is truncated
WriteOpen ==
  /\ suPc = "write"
  /\ suPc' = "writing"
  /\ suFile' = <<>>
  /\ UNCHANGED <<suOld, suTarget, suPending, suObserved, suSeen>>
  /\ UNCHANGED notUpdate

\* fs.writeFile writes the content and closes the file
WriteData ==
  /\ suPc = "writing"
  /\ suPc' = "done"
  /\ suFile' = suPending
  /\ UNCHANGED <<suOld, suTarget, suPending, suObserved, suSeen>>
  /\ UNCHANGED notUpdate

\* safeRead(filePath): fs.readFile, outside the chain of the file
SafeRead ==
  /\ suPc \in {"reading", "write", "writing"}
  /\ ~suObserved
  /\ suObserved' = TRUE
  /\ suSeen' = suFile
  /\ UNCHANGED <<suFile, suOld, suTarget, suPc, suPending>>
  /\ UNCHANGED notUpdate

\* the process dies while the call is under way
Crash ==
  /\ suPc \in {"reading", "write", "writing"}
  /\ suPc' = "crashed"
  /\ UNCHANGED <<suFile, suOld, suTarget, suPending, suObserved, suSeen>>
  /\ UNCHANGED notUpdate

UpdateIdle ==
  /\ suPc = "start"
  /\ suPending = <<>>
  /\ suObserved = FALSE
  /\ suSeen = <<>>

\* a file of at most MaxLines lines of any kind, and a messageId
InitUpdate ==
  /\ \E n \in 0..MaxLines : suOld \in [1..n -> StoredLines]
  /\ suFile = suOld
  /\ suTarget \in MsgIds
  /\ UpdateIdle

NoUpdate ==
  /\ suOld = <<>>
  /\ suFile = <<>>
  /\ suTarget = "m1"
  /\ UpdateIdle

NextSafeUpdate ==
  \/ SafeUpdateCall
  \/ \E readOk \in BOOLEAN : SafeUpdateRead(readOk)
  \/ WriteOpen
  \/ WriteData
  \/ SafeRead
  \/ Crash

\* ================================================ S3Uploader key generation
\* A key is the record of the parts of its path:
\*   <prefix>/<date>/<group>/<id>_<stamp><suffix>.<extension>   (media)
\*   chat-logs/<date>/guild_<group>_<stamp>.json                (chat log)
KeyKinds == {"image", "file", "video", "chatlog"}
GuildIds == Groups \cup {"private"}

\* getCurrentTimeInUTC8(): new Date(new Date().toLocaleString('en-US',
\* {timeZone: 'Asia/Shanghai'})). The text is the wall clock of UTC+8 with no
\* offset, which new Date reads as a time of the zone of the process.
getCurrentTimeInUTC8(now, zone) == now + UTC8 - zone

\* lines 539-580: the date and the stamp of the key are those of Date.now()
MediaKey(prefix, messageId, guildId, index, now) ==
  [prefix |-> prefix, date |-> getDateStringInUTC8(now), group |-> guildId,
   id |-> messageId, stamp |-> now, suffix |-> index]

generateImageKey(messageId, guildId, index, now) ==
  MediaKey("images", messageId, guildId, index, now)

generateFileKey(messageId, guildId, index, now) ==
  MediaKey("files", messageId, guildId, index, now)

generateVideoKey(messageId, guildId, index, now) ==
  MediaKey("videos", messageId, guildId, index, now)

\* lines 584-593: the date and the stamp are those of the Date handed in
generateChatLogKey(date, guildId) ==
  [prefix |-> "chat-logs", date |-> getDateStringInUTC8(date), group |-> guildId,
   id |-> "none", stamp |-> date, suffix |-> 0]

\* executeAutoUpload: yesterday = getCurrentTimeInUTC8();
\* yesterday.setDate(yesterday.getDate() - 1), the Date it hands to
\* generateChatLogKey
yesterdayOf(now, zone) == getCurrentTimeInUTC8(now, zone) - HoursPerDay

\* the key as the callers compute it: processImageUpload, processFileUpload,
\* processVideoUpload for a media element, executeAutoUpload for a partition
KeyAt(kind, messageId, guildId, index, now, zone) ==
  CASE kind = "image" -> generateImageKey(messageId, guildId, index, now)
    [] kind = "file" -> generateFileKey(messageId, guildId, index, now)
    [] kind = "video" -> generateVideoKey(messageId, guildId, index, now)
    [] kind = "chatlog" -> generateChatLogKey(yesterdayOf(now, zone), guildId)

\* the key of the record is generated (again)
GenerateKey ==
  /\ Len(kKeys) < MaxGenerated
  /\ kKeys' = Append(kKeys, KeyAt(kKind, kMessageId, kGuildId, kIndex, kNow, kZone))
  /\ UNCHANGED <<kKind, kMessageId, kGuildId, kIndex, kZone, kNow>>
  /\ UNCHANGED notKey

\* an hour goes by
KeyTick ==
  /\ kNow < MaxKeyClock
  /\ kNow' = kNow + 1
  /\ UNCHANGED <<kKind, kMessageId, kGuildId, kIndex, kZone, kKeys>>
  /\ UNCHANGED notKey

\* any record of any kind, in a process of any zone. A chat-log key has no
\* record id and no index.
InitKey ==
  /\ kKind \in KeyKinds
  /\ kMessageId \in (IF kKind = "chatlog" THEN {"none"} ELSE MsgIds)
  /\ kGuildId \in GuildIds
  /\ kIndex \in (IF kKind = "chatlog" THEN {0} ELSE {0, 1})
  /\ kZone \in ZoneOffsets
  /\ kNow = 0
  /\ kKeys = <<>>

NoKey ==
  /\ kKind = "image"
  /\ kMessageId = "m1"
  /\ kGuildId = "g1"
  /\ kIndex = 0
  /\ kZone = UTC8
  /\ kNow = 0
  /\ kKeys = <<>>

NextKey == GenerateKey \/ KeyTick

\* ================================================== the daily schedule
TargetHours == 0..(HoursPerDay - 1)

\* getNextExecutionTime(targetTime), lines 491-503: now =
\* getCurrentTimeInUTC8(); next = new Date(now); next.setHours(hours, minutes,
\* 0, 0), which sets the fields of the time in the zone of the process;
\* if (next <= now) next.setDate(next.getDate() + 1)
getNextExecutionTime(target, realNow, zone) ==
  LET now == getCurrentTimeInUTC8(realNow, zone)
      fields == now + zone
      next == (fields \div HoursPerDay) * HoursPerDay + target - zone
  IN IF next <= now THEN next + HoursPerDay ELSE next

\* scheduleAutoUpload, line 839 (scheduleTimePoint, line 1407):
\* delay = nextExecution.getTime() - Date.now()
scheduleDelay(target, realNow, zone) ==
  getNextExecutionTime(target, realNow, zone) - realNow

\* scheduleAutoUpload(): the timer is armed with the delay
ScheduleAutoUpload ==
  /\ dPc \in {"idle", "fired"}
  /\ dDelay' = scheduleDelay(dTarget, dNow, dZone)
  /\ dPc' = "armed"
  /\ UNCHANGED <<dTarget, dZone, dNow>>
  /\ UNCHANGED notDelay

\* the timer fires when the delay is over, at once if it is not positive;
\* the callback runs the batch and calls scheduleAutoUpload()
DelayOver ==
  /\ dPc = "armed"
  /\ LET wait == IF dDelay > 0 THEN dDelay ELSE 0 IN
       /\ dNow + wait <= MaxScheduleClock
       /\ dNow' = dNow + wait
  /\ dPc' = "fired"
  /\ UNCHANGED <<dTarget, dZone, dDelay>>
  /\ UNCHANGED notDelay

\* any target hour, any hour of the day, a process of any zone
InitDelay ==
  /\ dTarget \in TargetHours
  /\ dZone \in ZoneOffsets
  /\ dNow \in 0..(HoursPerDay - 1)
  /\ dPc = "idle"
  /\ dDelay = 0

NoDelay ==
  /\ dTarget = 0
  /\ dZone = UTC8
  /\ dNow = 0
  /\ dPc = "idle"
  /\ dDelay = 0

NextDelay == ScheduleAutoUpload \/ DelayOver

\* =========================================== the timers and the dispose handler
TimePoints == {"t1", "t2"}

\* the callback of the timer of scheduleAutoUpload begins:
\* await executeAutoUpload()
UploadTimerFires ==
  /\ uploadScheduler
  /\ uploadCallback = "idle"
  /\ uploadScheduler' = FALSE
  /\ uploadCallback' = "upload"
  /\ UNCHANGED <<cleanupScheduler, startupTimer, cleanupRunning, schedulers,
                 pointCallback, disposed>>
  /\ UNCHANGED notTimer

\* executeAutoUpload has returned: await executeDatabaseCleanup()
UploadBatchEnds ==
  /\ uploadCallback = "upload"
  /\ uploadCallback' = "cleanup"
  /\ UNCHANGED <<uploadScheduler, cleanupScheduler, startupTimer, cleanupRunning,
                 schedulers, pointCallback, disposed>>
  /\ UNCHANGED notTimer

\* executeDatabaseCleanup has returned: scheduleAutoUpload(), which clears
\* the timer there is and arms the next one
UploadCleanupEnds ==
  /\ uploadCallback = "cleanup"
  /\ uploadCallback' = "idle"
  /\ uploadScheduler' = TRUE
  /\ UNCHANGED <<cleanupScheduler, startupTimer, cleanupRunning, schedulers,
                 pointCallback, disposed>>
  /\ UNCHANGED notTimer

\* the interval of scheduleDbCleanup comes round: await executeDatabaseCleanup()
CleanupIntervalFires ==
  /\ cleanupScheduler
  /\ ~cleanupRunning
  /\ cleanupRunning' = TRUE
  /\ UNCHANGED <<uploadScheduler, uploadCallback, cleanupScheduler, startupTimer,
                 schedulers, pointCallback, disposed>>
  /\ UNCHANGED notTimer

\* setTimeout(() => executeDatabaseCleanup(), 5000) of initializePlugin fires
StartupTimerFires ==
  /\ startupTimer
  /\ ~cleanupRunning
  /\ startupTimer' = FALSE
  /\ cleanupRunning' = TRUE
  /\ UNCHANGED <<uploadScheduler, uploadCallback, cleanupScheduler, schedulers,
                 pointCallback, disposed>>
  /\ UNCHANGED notTimer

\* that executeDatabaseCleanup has returned
CleanupRunEnds ==
  /\ cleanupRunning
  /\ cleanupRunning' = FALSE
  /\ UNCHANGED <<uploadScheduler, uploadCallback, cleanupScheduler, startupTimer,
                 schedulers, pointCallback, disposed>>
  /\ UNCHANGED notTimer

\* the callback of the timer of a time point begins: executeGroupSummary /
\* executeGroupPush for each of its groups
TimePointFires(t) ==
  /\ schedulers[t]
  /\ pointCallback[t] = "idle"
  /\ schedulers' = [schedulers EXCEPT ![t] = FALSE]
  /\ pointCallback' = [pointCallback EXCEPT ![t] = "tasks"]
  /\ UNCHANGED <<uploadScheduler, uploadCallback, cleanupScheduler, startupTimer,
                 cleanupRunning, disposed>>
  /\ UNCHANGED notTimer

\* the tasks of the time point are over: scheduleTimePoint(time, tasks),
\* which arms the timer of the next day and puts it in schedulers
TimePointEnds(t) ==
  /\ pointCallback[t] = "tasks"
  /\ pointCallback' = [pointCallback EXCEPT ![t] = "idle"]
  /\ schedulers' = [schedulers EXCEPT ![t] = TRUE]
  /\ UNCHANGED <<uploadScheduler, uploadCallback, cleanupScheduler, startupTimer,
                 cleanupRunning, disposed>>
  /\ UNCHANGED notTimer

\* ctx.on('dispose'): clearTimeout(uploadScheduler),
\* clearInterval(cleanupScheduler), clearAllSchedulers()
Dispose ==
  /\ ~disposed
  /\ disposed' = TRUE
  /\ uploadScheduler' = FALSE
  /\ cleanupScheduler' = FALSE
  /\ schedulers' = [t \in TimePoints |-> FALSE]
  /\ UNCHANGED <<uploadCallback, startupTimer, cleanupRunning, pointCallback>>
  /\ UNCHANGED notTimer

\* no timer, no callback
TimersIdle ==
  /\ uploadCallback = "idle"
  /\ cleanupRunning = FALSE
  /\ pointCallback = [t \in TimePoints |-> "idle"]
  /\ disposed = FALSE

\* after initializePlugin: the upload timer, the cleanup interval and the
\* 5 s timer are armed, and the timer of each configured time point
InitTimer ==
  /\ uploadScheduler = TRUE
  /\ cleanupScheduler = TRUE
  /\ startupTimer = TRUE
  /\ schedulers \in [TimePoints -> BOOLEAN]
  /\ TimersIdle

NoTimer ==
  /\ uploadScheduler = FALSE
  /\ cleanupScheduler = FALSE
  /\ startupTimer = FALSE
  /\ schedulers = [t \in TimePoints |-> FALSE]
  /\ TimersIdle

NextTimer ==
  \/ UploadTimerFires
  \/ UploadBatchEnds
  \/ UploadCleanupEnds
  \/ CleanupIntervalFires
  \/ StartupTimerFires
  \/ CleanupRunEnds
  \/ \E t \in TimePoints : TimePointFires(t)
  \/ \E t \in TimePoints : TimePointEnds(t)
  \/ Dispose

\* ============================================ the listing of chat-logs/
ListDates == 1..MaxListDates

\* ListObjectsV2Command, MaxKeys: 1000 (here MaxKeys objects): one page
MaxKeys == 2

\* the hour of the day at which the stored objects were uploaded, and the
\* hour at which the batch uploads
EarlierHour == 2
BatchHour == 3

\* the order of the keys, that of their text: chat-logs/<date>/ first, then
\* guild_<group>_<stamp>.json before private_<stamp>.json
GroupRank(g) == CASE g = "g1" -> 1 [] g = "g2" -> 2 [] g = "private" -> 3

KeyBefore(a, b) ==
  \/ a.date < b.date
  \/ a.date = b.date /\ GroupRank(a.group) < GroupRank(b.group)
  \/ a.date = b.date /\ a.group = b.group /\ a.stamp < b.stamp

\* listFiles('chat-logs/'), lines 688-731: the Contents of one response,
\* which holds the first MaxKeys keys of the prefix; no continuation token
\* is sent for the rest
listFiles(store) ==
  {k \in store : Cardinality({j \in store : KeyBefore(j, k)}) < MaxKeys}

\* checkS3Files, lines 168-200, for the dates asked: the dates for which
\* files.find matches chat-logs/<date>/guild_<guildId>_\d+\.json$ (or
\* private_\d+\.json$)
checkS3FilesIn(files, guildId, dates) ==
  {d \in dates : \E f \in files : f.date = d /\ f.group = guildId}

\* the batch stores the partition (lGroup, lDate) under its key
BatchStores ==
  /\ lPc = "start"
  /\ lPc' = "stored"
  /\ lStore' = lStore \cup
       {generateChatLogKey(parseDate(lDate, UTC8) + BatchHour, lGroup)}
  /\ UNCHANGED <<lGroup, lDate, lFound>>
  /\ UNCHANGED notList

\* an export of each group over all the dates runs its remote check
RemoteCheck ==
  /\ lPc = "stored"
  /\ lPc' = "checked"
  /\ lFound' = {p \in GuildIds \X ListDates :
                  p[2] \in checkS3FilesIn(listFiles(lStore), p[1], ListDates)}
  /\ UNCHANGED <<lStore, lGroup, lDate>>
  /\ UNCHANGED notList

\* the objects an earlier upload may have left under chat-logs/
EarlierObjects ==
  {generateChatLogKey(parseDate(d, UTC8) + EarlierHour, g) :
     d \in ListDates, g \in GuildIds}

InitList ==
  /\ lStore \in SUBSET EarlierObjects
  /\ lGroup \in GuildIds
  /\ lDate \in ListDates
  /\ lPc = "start"
  /\ lFound = {}

NoList ==
  /\ lStore = {}
  /\ lGroup = "g1"
  /\ lDate = 1
  /\ lPc = "start"
  /\ lFound = {}

NextList == BatchStores \/ RemoteCheck

\* ================================= MarkdownToImageService: the render slot
\* A call of convertToImage is "idle" (not made), "queued" (its task is in
\* renderQueue), "acquired" (it has the slot and runs the code before the
\* try block), "rendering" (inside the try block), "done", "failed" (it threw
\* inside the try block) or "leaked" (it threw before the try block).
Renderers == 1..MaxRenderers

\* (mutant) the task of the next caller leaves the slot free
SlotAfterRelease_Free(queue) == FALSE

\* releaseRenderSlot: isRendering = false; the task of the next caller in
\* the queue, when there is one, sets isRendering = true
SlotAfterRelease(queue) == queue # <<>>

\* convertToImage: await waitForRenderSlot()
WaitForRenderSlot(c) ==
  /\ mdPc[c] = "idle"
  /\ IF ~isRendering
       THEN /\ isRendering' = TRUE
            /\ mdPc' = [mdPc EXCEPT ![c] = "acquired"]
            /\ UNCHANGED <<renderQueue, mdQueued>>
       ELSE /\ renderQueue' = Append(renderQueue, c)
            /\ mdQueued' = Append(mdQueued, c)
            /\ mdPc' = [mdPc EXCEPT ![c] = "queued"]
            /\ UNCHANGED isRendering
  /\ UNCHANGED mdGranted
  /\ UNCHANGED notRender

\* lines 181-295, before the try block: require.resolve and readFileSync of
\* github-markdown.css, generateFontCSS, markdownToHtml; what throws here
\* (~ok) leaves convertToImage with no finally to run
RenderSetup(c, ok) ==
  /\ mdPc[c] = "acquired"
  /\ mdPc' = [mdPc EXCEPT ![c] = IF ok THEN "rendering" ELSE "leaked"]
  /\ UNCHANGED <<isRendering, renderQueue, mdQueued, mdGranted>>
  /\ UNCHANGED notRender

\* the try block is over, puppeteer.render having resolved (ok) or thrown;
\* finally: releaseRenderSlot()
RenderEnds(c, ok) ==
  /\ mdPc[c] = "rendering"
  /\ isRendering' = SlotAfterRelease(renderQueue)
  /\ IF renderQueue = <<>>
       THEN /\ mdPc' = [mdPc EXCEPT ![c] = IF ok THEN "done" ELSE "failed"]
            /\ UNCHANGED <<renderQueue, mdGranted>>
       ELSE /\ mdPc' = [mdPc EXCEPT ![c] = IF ok THEN "done" ELSE "failed",
                                    ![Head(renderQueue)] = "acquired"]
            /\ renderQueue' = Tail(renderQueue)
            /\ mdGranted' = Append(mdGranted, Head(renderQueue))
  /\ UNCHANGED mdQueued
  /\ UNCHANGED notRender

InitRenderSlot ==
  /\ mdPc = [c \in Renderers |-> "idle"]
  /\ isRendering = FALSE
  /\ renderQueue = <<>>
  /\ mdQueued = <<>>
  /\ mdGranted = <<>>

NoRender == InitRenderSlot

NextRender ==
  \/ \E c \in Renderers : WaitForRenderSlot(c)
  \/ \E c \in Renderers, ok \in BOOLEAN : RenderSetup(c, ok)
  \/ \E c \in Renderers, ok \in BOOLEAN : RenderEnds(c, ok)

\* no call of the added sections is under way
NoMore == NoKey /\ NoDelay /\ NoTimer /\ NoList /\ NoRender

\* no call of the single-function sections is under way
NoPure == NoRange /\ NoParse /\ NoUpdate /\ NoMore

\* ====================================================== specifications
\* the upload batch, retention and cleanup
Init == InitUpload /\ InitWriter /\ InitUpsert /\ NoExport /\ InitCleanup /\ InitClient
        /\ NoPure

Next == NextUpload

Spec == Init /\ [][Next]_vars

\* the writer
InitW == Init /\ retentionDays = 1

SpecWriter == InitW /\ [][NextWriter]_vars

\* the daily batch with the media backfill of the messages of LogDate
SpecBackfill == InitW /\ [][NextIngest]_vars

\* concurrent callers of the upsert
SpecUpsert == InitW /\ [][NextUpsert]_vars

\* one export request
InitX == InitUpload /\ retentionDays = 1 /\ InitWriter /\ InitUpsert /\ InitExport
         /\ InitCleanup /\ InitClient /\ NoPure

SpecExport == InitX /\ [][NextExport]_vars

\* one pass of the local cleanup over files of any age
InitC ==
  /\ today \in Days
  /\ retentionDays \in 1..MaxRetentionDays
  /\ mtime \in [Groups -> 0..MaxDay]
  /\ \A p \in Groups : mtime[p] <= today
  /\ chatRecords = {}
  /\ logFiles = {}
  /\ remoteCount = [p \in Groups |-> 0]
  /\ phase = "idle"
  /\ task = [g \in Groups |-> "none"]
  /\ checkErr = [g \in Groups |-> FALSE]
  /\ summary = NoSummary
  /\ bg = {}
  /\ InitWriter /\ InitUpsert /\ NoExport /\ InitCleanup /\ InitClient
  /\ NoPure

SpecCleanup == InitC /\ [][NextCleanup]_vars

\* calls of the object-store client. Timers fire and settled promises are
\* continued (the event loop), and a request that gets no response ends in
\* an error of the client (requestTimeout, connectionTimeout, maxAttempts);
\* nothing makes a transfer that has begun come to an end.
SpecClient ==
  /\ InitW
  /\ [][NextClient]_vars
  /\ WF_vars(Tick)
  /\ WF_vars(DeadlineTimer)
  /\ WF_vars(\E abortOk \in BOOLEAN : UploadCatch(abortOk))
  /\ WF_vars(\E ok \in BOOLEAN : FileRead(ok))
  /\ WF_vars(DownloadSendError)

\* ===================================================== claims: upload batch
HasRow(g, st) == \E r \in RowsOf(logFiles, g, LogDate) : r.status = st

\* C1: no local partition file is ever deleted while its upload record is not
\* 'uploaded' (or does not exist), on either deletion path: every step that
\* removes a file leaves that partition with an 'uploaded' record.
C1_NeverDeleteUnuploaded ==
  [][\A g \in Groups :
       (mtime[g] > 0 /\ mtime'[g] = 0)
         => checkChatLogFileUploaded(logFiles', g, LogDate)]_vars

\* C6: in a run where one partition's upload timed out, that partition's
\* record is 'failed' with a non-empty error, and every partition of the run
\* whose upload succeeded has an 'uploaded' record.
C6_TimeoutRecordedAsFailed ==
  \A g \in Groups :
    task[g] = "timeout" =>
      /\ \E r \in RowsOf(logFiles, g, LogDate) :
           r.status = "failed" /\ r.error # NoError
      /\ \A h \in Groups : task[h] = "ok" => HasRow(h, "uploaded")

AllowedTransitions ==
  {<<"pending", "uploading">>, <<"uploading", "uploaded">>,
   <<"uploading", "failed">>, <<"failed", "uploading">>}

\* C8: a record's status changes only along the allowed transitions, and a
\* record that is 'uploaded' never changes again.
C8_StatusTransitions ==
  [][\A r \in logFiles : \A r2 \in logFiles' :
       r.id = r2.id =>
         /\ r.status # r2.status => <<r.status, r2.status>> \in AllowedTransitions
         /\ r.status = "uploaded" => r2 = r]_vars

\* C9: whenever an upload of a partition is in flight, its record exists with
\* status 'uploading'.
C9_InFlightIsUploading ==
  \A g \in Groups :
    task[g] \in {"inflight", "sending"} => HasRow(g, "uploading")

\* the scan turn of the batch for a partition whose record is 'uploaded'
ScansUploaded(g) ==
  /\ phase = "scan" /\ task[g] = "toscan" /\ task'[g] # "toscan"
  /\ FileExists(g)
  /\ HasRow(g, "uploaded")

\* a partition the run left out stays as it is for the rest of the run
SkippedStays(g) ==
  (phase # "idle" /\ task[g] = "skipped" /\ HasRow(g, "uploaded"))
    => RowsOf(logFiles', g, LogDate) = RowsOf(logFiles, g, LogDate)

C11_NoSecondObject ==
  \A g \in Groups : remoteCount[g] <= 1

\* C12: a run never ends having left aside a partition whose record is
\* 'failed' and whose local file is still there: the run that follows a
\* failure attempts the upload again.
C12_FailedIsRetried ==
  [][(phase # "idle" /\ phase' = "idle")
       => \A g \in Groups :
            (HasRow(g, "failed") /\ FileExists(g)) => InFilesToUpload(task[g])]_vars

\* C13: the scan of a batch run leaves out no partition file of yesterday
\* whose record is not 'uploaded'.
C13_OnlyUploadedIsSkipped ==
  [][\A g \in Groups :
       (phase = "scan" /\ task[g] = "toscan" /\ FileExists(g)
          /\ ~HasRow(g, "uploaded"))
         => task'[g] # "skipped"]_vars

\* the upload task of g ends this step in a failure (error result, exception
\* or timeout)
FailsNow(g) ==
  /\ task[g] \in {"inflight", "sending"}
  /\ task'[g] \in {"failed", "exception", "timeout"}

\* what the run has done for partition h
OutcomeOf(h) == <<task[h], RowsOf(logFiles, h, LogDate), mtime[h], remoteCount[h]>>

\* C14: the failure of one partition's upload changes nothing for any other
\* partition of the run (its task, its record, its file, its objects), and
\* the summary of the run counts the successes over all the partitions the
\* run attempted.
C14_FailureIsolated ==
  [][/\ \A g \in Groups : FailsNow(g) =>
          \A h \in Groups \ {g} : OutcomeOf(h)' = OutcomeOf(h)
     /\ (phase = "upload" /\ phase' = "summary") =>
          /\ summary'.total = Cardinality({g \in Groups : InFilesToUpload(task[g])})
          /\ summary'.success = Cardinality({g \in Groups : task[g] = "ok"})
          /\ \A g \in Groups : Settled(task[g])]_vars

\* C14 witness: a run has ended with one partition failed and the other
\* uploaded, and its summary says 1 of 2.
C14_Witness ==
  /\ phase = "summary"
  /\ \E g \in Groups : task[g] \in {"failed", "exception", "timeout"}
  /\ \E h \in Groups : task[h] = "ok" /\ HasRow(h, "uploaded")
  /\ summary = [success |-> 1, total |-> 2]

\* C16: once the batch has treated a partition's upload as timed out, no
\* remote object appears for that partition from the abandoned transfer.
C16_NoObjectAfterTimeout ==
  [][\A g \in Groups :
       g \in bg => remoteCount'[g] = remoteCount[g]]_vars

\* C18: a local partition file is never deleted while an upload of that file
\* is in flight.
C18_NoDeleteWhileInFlight ==
  [][\A g \in Groups :
       (task[g] \in {"inflight", "sending"} /\ FileExists(g)) => mtime'[g] > 0]_vars

\* C30: once the upload record of a partition is 'uploaded', its local file
\* is not written any more: it stays as it is or is deleted.
C30_ImmutableOnceUploaded ==
  [][\A g \in Groups :
       checkChatLogFileUploaded(logFiles, g, LogDate)
         => (mtime'[g] = mtime[g] \/ mtime'[g] = 0)]_vars

\* C33: when the retention step that follows a successful upload deletes the
\* local file, the chat_log_files row of the partition with status
\* 'uploaded' has been stored.
C33_RetentionAfterStoredRecord ==
  [][\A g \in Groups :
       (task[g] = "sending" /\ task'[g] = "ok" /\ mtime[g] > 0 /\ mtime'[g] = 0)
         => \E r \in RowsOf(logFiles', g, LogDate) : r.status = "uploaded"]_vars

InitRest == InitUpload /\ retentionDays = 1 /\ InitWriter /\ InitUpsert /\ NoExport
            /\ InitCleanup /\ InitClient

\* parseTimeRange over any range of days, in any zone
InitR == InitRest /\ InitRange /\ NoParse /\ NoUpdate /\ NoMore

SpecRange == InitR /\ [][NextRange]_vars

\* parseMessageFiles over any two files
InitP == InitRest /\ NoRange /\ InitParse /\ NoUpdate /\ NoMore

SpecParse == InitP /\ [][NextParse]_vars

\* one safeUpdate call on any file, a reader and a crash beside it
InitU == InitRest /\ NoRange /\ NoParse /\ InitUpdate /\ NoMore

SpecSafeUpdate == InitU /\ [][NextSafeUpdate]_vars

\* the components other than the added sections, at rest
InitQuiet == InitRest /\ NoRange /\ NoParse /\ NoUpdate

\* the key of one record, generated more than once
InitK == InitQuiet /\ InitKey /\ NoDelay /\ NoTimer /\ NoList /\ NoRender

SpecKey == InitK /\ [][NextKey]_vars

\* the daily schedule from any hour on
InitD == InitQuiet /\ NoKey /\ InitDelay /\ NoTimer /\ NoList /\ NoRender

SpecSchedule == InitD /\ [][NextDelay]_vars

\* the timers of the plugin and its disposal
InitT == InitQuiet /\ NoKey /\ NoDelay /\ InitTimer /\ NoList /\ NoRender

SpecTimers == InitT /\ [][NextTimer]_vars

\* one upload of a partition and the remote check of the exports
InitL == InitQuiet /\ NoKey /\ NoDelay /\ NoTimer /\ InitList /\ NoRender

SpecListing == InitL /\ [][NextList]_vars

\* concurrent calls of convertToImage
InitM == InitQuiet /\ NoKey /\ NoDelay /\ NoTimer /\ NoList /\ InitRenderSlot

SpecRender == InitM /\ [][NextRender]_vars

\* the same, where a call that has the slot goes on: the code before the
\* try block and the rendering come to an end
SpecRenderLive ==
  /\ InitM
  /\ [][NextRender]_vars
  /\ \A c \in Renderers : WF_vars(\E ok \in BOOLEAN : RenderSetup(c, ok))
  /\ \A c \in Renderers : WF_vars(\E ok \in BOOLEAN : RenderEnds(c, ok))

\* ============================================================ claims: keys
\* C31: the key of a record is the same whenever it is generated: the keys
\* generated for one (kind, date, partition, record id) at different times
\* are equal.
C31_KeyDeterministic ==
  \A i \in 1..Len(kKeys) : \A j \in 1..Len(kKeys) : kKeys[i] = kKeys[j]

\* C36: once the batch has stored a partition under its key, the remote
\* check of an export reports the date of the partition for its group, and
\* reports no date for a group that has no object of that date, whatever
\* else is stored under chat-logs/.
C36_ListingAgreesWithUpload ==
  lPc = "checked" =>
    /\ <<lGroup, lDate>> \in lFound
    /\ \A p \in lFound : \E k \in lStore : k.group = p[1] /\ k.date = p[2]

\* ========================================================= claims: schedule
\* C35: the delay of the timer that scheduleAutoUpload arms is more than
\* zero and at most 24 hours, for every target time, every instant and
\* every zone of the process.
C35_DelayWithinDay == dPc = "armed" => (dDelay > 0 /\ dDelay <= HoursPerDay)

\* C34: once the dispose handler has run, no timer of scheduleAutoUpload,
\* scheduleDbCleanup or scheduleTimePoint is armed, also when a callback of
\* one of them was executing as it ran.
C34_NoTimerAfterDispose ==
  disposed =>
    /\ ~uploadScheduler
    /\ ~cleanupScheduler
    /\ \A t \in TimePoints : ~schedulers[t]

\* ====================================================== claims: render slot
\* the calls that have the slot
SlotHolders == {c \in Renderers : mdPc[c] \in {"acquired", "rendering", "leaked"}}

\* C38: at most one call of convertToImage has the render slot, and the
\* callers that waited in the queue were given it in the order in which
\* they began to wait.
C38_OneHolderFifo ==
  /\ Cardinality(SlotHolders) <= 1
  /\ Len(mdGranted) <= Len(mdQueued)
  /\ mdGranted = SubSeq(mdQueued, 1, Len(mdGranted))

\* C38 witness: two callers waited while a third had the slot, and both
\* have been given it.
C38_Witness ==
  /\ Len(mdQueued) = 2
  /\ mdGranted = mdQueued

\* C39: a caller that waits in the render queue comes to be given the slot.
C39_WaitersServed ==
  \A c \in Renderers : (mdPc[c] = "queued") ~> (mdPc[c] # "queued")

\* ============================================================ claims: range
\* the calendar days from a to b, ascending
DaysFromTo(a, b) == [i \in 1..(b - a + 1) |-> a + i - 1]

\* C25: a range "start,end" with start <= end resolves to every calendar
\* date from start to end inclusive, each once, in ascending order.
C25_RangeInclusive ==
  (rPc = "done" /\ rStart <= rEnd) => rDates = DaysFromTo(rStart, rEnd)

\* ============================================================ claims: parse
\* the line a message was made of
LineOf(m) == pFiles[m.src[1]][m.src[2]]

\* C22: a line that does not parse is skipped on its own: every record line
\* of every file that was read, before or after such a line, whose type is
\* allowed, is in the result, once.
C22_MalformedLineSkipped ==
  pPc = "done" =>
    \A f \in FileIds \ pUnreadable : \A n \in 1..Len(pFiles[f]) :
      (IsRecord(pFiles[f][n]) /\ pFiles[f][n].messageType \in pTypes) =>
        Cardinality({i \in 1..Len(pMessages) : pMessages[i].src = <<f, n>>}) = 1

\* C22 witness: a file was parsed that has a record line before and a
\* record line after a line that does not parse, and both are in the result.
C22_Witness ==
  /\ pPc = "done"
  /\ \E f \in FileIds \ pUnreadable :
       /\ Len(pFiles[f]) = 3
       /\ IsRecord(pFiles[f][1]) /\ pFiles[f][2] = BadLine /\ IsRecord(pFiles[f][3])
       /\ \E i, j \in 1..Len(pMessages) :
            pMessages[i].src = <<f, 1>> /\ pMessages[j].src = <<f, 3>>

\* C24: the records of the result are in ascending order of their
\* timestamps, and records of equal timestamps are in the order of the files
\* and lines they were read from.
C24_SortedByTimestamp ==
  pPc = "done" =>
    \A i, j \in 1..Len(pMessages) : i < j =>
      \/ LineOf(pMessages[i]).timestamp < LineOf(pMessages[j]).timestamp
      \/ /\ LineOf(pMessages[i]).timestamp = LineOf(pMessages[j]).timestamp
         /\ \/ pMessages[i].src[1] < pMessages[j].src[1]
            \/ /\ pMessages[i].src[1] = pMessages[j].src[1]
               /\ pMessages[i].src[2] < pMessages[j].src[2]

\* ======================================================= claims: safeUpdate
\* the lines of the file that hold a record of the messageId
MatchingLines(file, m) == {n \in 1..Len(file) : MatchesId(file[n], m)}

FirstMatch(file, m) ==
  CHOOSE n \in MatchingLines(file, m) : \A k \in MatchingLines(file, m) : n <= k

\* C26: an update of a messageId the file holds replaces the first line of
\* that messageId and leaves every other line as it was, in its place.
C26_ReplacesFirstMatchOnly ==
  (suPc = "done" /\ MatchingLines(suOld, suTarget) # {}) =>
    suFile = [suOld EXCEPT ![FirstMatch(suOld, suTarget)] = NewLine(suTarget)]

\* C27: an update of a messageId the file does not hold leaves the lines of
\* the file as they were and adds the new record as the last line.
C27_AbsentIdAppends ==
  (suPc = "done" /\ MatchingLines(suOld, suTarget) = {}) =>
    suFile = Append(suOld, NewLine(suTarget))

\* C28: a safeRead that runs beside the update, and the file a crash leaves
\* behind, have the whole old content or the whole new content.
C28_AtomicRewrite ==
  /\ suObserved => suSeen \in {suOld, finalContent(suOld, suTarget)}
  /\ suPc = "crashed" => suFile \in {suOld, finalContent(suOld, suTarget)}

\* ============================================================ claims: client
\* C15: a call of uploadBuffer / uploadFile never waits for its transfer
\* beyond the deadline (90 s after the timer was armed), and a call that has
\* returned without success has left no transfer in flight: when the
\* deadline ran out the transfer was aborted and the result is the error.
C15_UploadBounded ==
  /\ upPc = "transfer" => upElapsed <= UploadDeadline
  /\ upPc = "returned" =>
       /\ upTransfer # "running"
       /\ upResult = "success" <=> upTransfer = "stored"
       /\ upResult = "timeout" => upTransfer = "aborted"
       /\ upElapsed <= UploadDeadline

\* C15 witness: a call has returned the timeout error at the deadline, its
\* transfer aborted.
C15_Witness ==
  /\ upPc = "returned"
  /\ upResult = "timeout"
  /\ upElapsed = UploadDeadline
  /\ upTransfer = "aborted"

\* C40: a call of uploadBuffer / uploadFile ends by returning a result,
\* never by throwing: the result of a failure (the file cannot be read, the
\* transfer fails or runs into the deadline, with an abort that throws as
\* well) carries an error text that is not empty; any other result is the
\* success result, given only when the object is stored.
C40_FailureReturnedNotThrown ==
  upPc = "returned" =>
    /\ upResult \notin {"none", ""}
    /\ upResult # "success" =>
         upResult \in {"readerror", "readfailed", "sdkerror", "uploadfailed", "timeout"}
    /\ upResult = "success" => upTransfer = "stored"

\* C40 witness: the transfer failed with an error that has no message, and
\* the call returned the failure with the text of the fallback.
C40_Witness ==
  /\ upPc = "returned"
  /\ upTransfer = "failed"
  /\ upResult = "uploadfailed"

\* C17: a downloadFile call that waits for its transfer comes to return.
C17_DownloadReturns == (dlPc = "body") ~> (dlPc = "returned")

\* ============================================================ claims: export
\* C2: an export whose range holds a date with neither a local file nor a
\* remote object fails and returns no records, whatever the other dates have.
C2_IncompleteRangeFails ==
  (xPc = "done" /\ \E d \in xReq : d \notin xLocal /\ d \notin xRemote)
    => (xResult.status # "ok" /\ xResult.records = {})

\* C20: a requested date that is available both locally and remotely is
\* never downloaded, and once the export has gone through its download stage
\* every requested date available only remotely has been downloaded exactly
\* once.
C20_DownloadDedup ==
  /\ \A d \in xReq : (d \in xLocal /\ d \in xRemote) => xDownloads[d] = 0
  /\ (xPc = "done" /\ xResult.status \notin {"notfound", "incomplete"}) =>
       \A d \in xReq : (d \in xRemote /\ d \notin xLocal) => xDownloads[d] = 1

\* C20 witness: an export is over in which one date was in both places and
\* another only in the object store.
C20_Witness ==
  /\ xPc = "done"
  /\ xResult.status = "ok"
  /\ \E d \in xReq : d \in xLocal /\ d \in xRemote /\ xDownloads[d] = 0
  /\ \E d \in xReq : d \notin xLocal /\ d \in xRemote /\ xDownloads[d] = 1

\* C23: an export that found files for its dates and parsed no record of
\* the requested types out of them returns the error of the empty result,
\* which is not the error of "no data found"; that one is returned only by
\* an export that found no file at all.
C23_EmptyDistinctFromNotFound ==
  xPc = "done" =>
    /\ (Cardinality(xLocalFiles) + Cardinality(xS3Files) >= Cardinality(xReq)
         /\ (xLocalFiles \cup xDownloaded) \cap xMatching = {})
        => (xResult = NoRecordsError /\ xResult.status # "notfound")
    /\ xResult.status = "notfound" => (xLocalFiles = {} /\ xS3Files = {})

\* C23 witness: every requested date has a local file, none of them holds a
\* record of the requested types, and the export has returned.
C23_Witness ==
  /\ xPc = "done"
  /\ xReq \subseteq xLocalFiles
  /\ xMatching \cap xReq = {}
  /\ xResult.status = "empty"

\* C21: an export in which the download of a needed remote file (a date
\* with no local file) failed returns a failure and carries no records.
C21_DownloadFailureFailsExport ==
  (xPc = "done" /\ \E d \in xReq : xDownloads[d] > 0 /\ d \notin xDownloaded)
    => (xResult.status # "ok" /\ xResult.records = {})

\* C37: when exportChatData has returned, no file that the export
\* downloaded is left in the temp directory.
C37_ScratchFilesDeleted == xPc = "done" => xTemp = {}

\* ============================================================ claims: writer
\* C3: operations on one key execute in the order of their submission and
\* never overlap: an operation starts only when every earlier operation on
\* its key has finished.
C3_PerKeyOrder ==
  \A i \in 1..Len(wOps) : \A j \in 1..Len(wOps) :
    (i < j /\ wOps[i].key = wOps[j].key /\ wOps[j].st # "waiting") => WDone(i)

\* whether the operation of call i itself met an I/O error
OwnFailure(i) == wOps[i].out = "rejected" /\ wOps[i].errOf = i

\* the content of file k after the first n calls, applied one after the other
RECURSIVE Sequential(_, _)
Sequential(k, n) ==
  IF n = 0 THEN <<>>
  ELSE LET before == Sequential(k, n - 1) IN
       IF wOps[n].key # k \/ OwnFailure(n) THEN before
       ELSE IF wOps[n].kind = "append" THEN Append(before, <<wOps[n].m, n>>)
       ELSE UpdatedLines(before, wOps[n].m, <<wOps[n].m, n>>)

\* C4: when every call has returned, each file is what the calls on its key
\* give when applied one at a time in submission order (the calls whose own
\* I/O failed aside): no line is lost, none is out of order.
C4_FileIsSequential ==
  (\A i \in 1..Len(wOps) : WDone(i))
    => \A k \in Keys : fileContent[k] = Sequential(k, Len(wOps))

\* C5: every operation that has returned was executed, and a failure it
\* returned is its own I/O failure, not that of an earlier operation.
C5_FailureIsolated ==
  \A i \in 1..Len(wOps) :
    WDone(i) => (wOps[i].ran /\ (wOps[i].out = "rejected" => wOps[i].errOf = i))

\* C29: when the dispose handler finishes (flush() has returned and
\* dispose() has run), every operation submitted to the writer up to then
\* has completed.
C29_DrainedOnShutdown ==
  [][(flushPc # "done" /\ flushPc' = "done")
       => \A i \in 1..Len(wOps') : wOps'[i].st = "done"]_vars

\* C32: flush() and dispose() keep the serialization of a key: once flush()
\* has been called (it is waiting or has returned), an operation starts only
\* when every operation submitted before it on its key has finished.
C32_FlushKeepsSerialization ==
  [][\A j \in 1..Len(wOps) :
       (flushPc # "idle" /\ wOps[j].st = "waiting" /\ wOps'[j].st = "running")
         => \A i \in 1..(j - 1) : wOps[i].key = wOps[j].key => WDone(i)]_vars

\* ============================================================ claims: upsert
\* C7: there is at most one upload record per (partition, date), whatever the
\* interleaving of the createOrUpdateChatLogFileRecord calls.
C7_OneRecordPerKey ==
  \A r1 \in logFiles : \A r2 \in logFiles :
    (r1.g = r2.g /\ r1.d = r2.d) => r1 = r2

====
